---- MODULE Spec2Model ----
(***************************************************************************)
(* A model of drivers/pci/pci.c: the device<->driver binding registry      *)
(* (pci_register_driver, pci_unregister_driver, pci_register_device,       *)
(* pci_unregister_device) and the enumeration / BAR assignment engine      *)
(* (pci_scan_bus, pci_setup_device, pci_presetup_bridge,                   *)
(* pci_postsetup_bridge) built with CONFIG_PCI_ASSIGN_ALL_BUSES.           *)
(*                                                                         *)
(* Every registry handler takes g_pci_lock on entry and releases it on     *)
(* return, so a handler is one atomic action here.  The callbacks a        *)
(* handler makes (probe, remove) are recorded, in call order, in           *)
(* last.calls; what a probe returns is an input of the action.             *)
(*                                                                         *)
(* pci_register_controller runs without the lock until it links the root   *)
(* bus; it is a sequence of actions: one per iteration of pci_scan_bus at  *)
(* a slot that can hold a function (what the slot answers is an input),    *)
(* one per return of pci_scan_bus, one per device registered by            *)
(* pci_register_bus_devices, and the final list_add_tail.  Machine words   *)
(* are sets of bit positions, so that 32- and 64-bit arithmetic is exact.  *)
(* Another task may register a driver between two registrations of         *)
(* pci_register_bus_devices, and a driver may look up a capability of a    *)
(* published device.                                                       *)
(*                                                                         *)
(* The configuration accessors (SpecAccess), the capability walk over      *)
(* capability lists of every shape (SpecCaps) and the calls with invalid   *)
(* arguments (SpecArgs) have specifications of their own.  SpecConcurrent  *)
(* runs the four registry calls as concurrent tasks over g_pci_lock: each  *)
(* call is the steps nxmutex_lock, critical section, nxmutex_unlock.       *)
(***************************************************************************)
EXTENDS Integers, Sequences, FiniteSets, TLC

\* ------------------------------------------------------------------------
\* Bounds of the model
\* ------------------------------------------------------------------------

\* Number of drivers / of caller-allocated devices the registry is driven with.
NumDrivers == 2

NumDevices == 2

Drivers == 1..NumDrivers

Devices == 1..NumDevices

\* Values a probe callback returns: a negative errno or success.
ProbeRets == {-1, 0}

\* ------------------------------------------------------------------------
\* Program constants
\* ------------------------------------------------------------------------

\* A null pointer (dev->drv == NULL, drv->remove == NULL).
NULL == 0

\* The wildcard of an id-table field.
PCI_ANY_ID == 65535

\* ------------------------------------------------------------------------
\* Bitwise operations on naturals (the C operators &, ^)
\* ------------------------------------------------------------------------

RECURSIVE BitAnd(_, _)
BitAnd(a, b) ==
  IF a = 0 \/ b = 0 THEN 0
  ELSE (IF a % 2 = 1 /\ b % 2 = 1 THEN 1 ELSE 0) + 2 * BitAnd(a \div 2, b \div 2)

RECURSIVE BitXor(_, _)
BitXor(a, b) ==
  IF a = 0 THEN b
  ELSE IF b = 0 THEN a
  ELSE (IF a % 2 # b % 2 THEN 1 ELSE 0) + 2 * BitXor(a \div 2, b \div 2)

\* ------------------------------------------------------------------------
\* Fixtures: the drivers and the devices the registry is exercised with
\* ------------------------------------------------------------------------

Id(v, d, sv, sd, c, m) ==
  [vendor |-> v, device |-> d, subvendor |-> sv, subdevice |-> sd,
   class |-> c, class_mask |-> m]

\* The terminating entry of an id table: vendor == 0.
Sentinel == Id(0, 0, 0, 0, 0, 0)

\* Three id tables.  Each ends with the sentinel; the first one carries an
\* entry after the sentinel, which the loops must never reach.
IdTables ==
  << << Id(32902, PCI_ANY_ID, PCI_ANY_ID, PCI_ANY_ID, 1, 0),
        Id(PCI_ANY_ID, 4110, PCI_ANY_ID, PCI_ANY_ID, 1, 0),
        Id(6900, 4096, PCI_ANY_ID, PCI_ANY_ID, 67072, 16776960),
        Sentinel,
        Id(PCI_ANY_ID, PCI_ANY_ID, PCI_ANY_ID, PCI_ANY_ID, 0, 0) >>,
     << Id(PCI_ANY_ID, PCI_ANY_ID, PCI_ANY_ID, PCI_ANY_ID, 0, 0),
        Id(PCI_ANY_ID, PCI_ANY_ID, PCI_ANY_ID, PCI_ANY_ID, 1, 0),
        Sentinel >>,
     << Id(32902, PCI_ANY_ID, PCI_ANY_ID, PCI_ANY_ID, 0, 0),
        Id(32902, PCI_ANY_ID, 6900, PCI_ANY_ID, 1, 0),
        Sentinel >> >>

\* drv->id_table
id_table(drv) == IdTables[((drv - 1) % Len(IdTables)) + 1]

\* drv->remove != NULL.  The second driver of every three has no remove
\* callback.
has_remove(drv) == drv % 3 # 2

\* The identification of three devices: an Ethernet controller (class
\* 0x020000), an AHCI controller (class 0x010601) and a second AHCI
\* controller of another vendor.
DeviceIdents ==
  << [vendor |-> 32902, device |-> 4110, subsystem_vendor |-> 0,
      subsystem_device |-> 0, class |-> 131072],
     [vendor |-> 6900, device |-> 4096, subsystem_vendor |-> 6900,
      subsystem_device |-> 1, class |-> 67073],
     [vendor |-> 32902, device |-> 10530, subsystem_vendor |-> 6900,
      subsystem_device |-> 2, class |-> 67073] >>

\* A zero-allocated device record (pci_alloc_device) carrying an
\* identification.
NewDevice(ident) ==
  [vendor |-> ident.vendor, device |-> ident.device,
   subsystem_vendor |-> ident.subsystem_vendor,
   subsystem_device |-> ident.subsystem_device,
   class |-> ident.class, drv |-> NULL]

VARIABLES
  g_pci_device_list,  \* the global device list, in list order
  g_pci_driver_list,  \* the global driver list, in list order
  pci_devs,           \* device records, by device
  attached,           \* per device: drivers with a successful probe not yet
                      \* followed by remove (history of the callbacks)
  last,               \* the last registry call: its arguments, return value
                      \* and the callbacks it made, in order
  plan,               \* registration-order experiment: the order of the
                      \* drivers, of the devices, and what each probe returns
  alt,                \* registration-order experiment: a second registry,
                      \* filled devices first
  pci_ctrl,           \* the controller: its windows (io, mem, mem_pref),
                      \* busno and root bus; NULL before registration
  windows,            \* the windows of the controller as they were passed
                      \* to pci_register_controller
  pci_buses,          \* bus records, by bus
  pci_cfg,            \* the configuration space of each allocated device
  scan_stack,         \* the active calls of pci_scan_bus, innermost last:
                      \* bus, devfn, is_multi and the bridge being scanned,
                      \* and (history) whether function 0 of the device the
                      \* loop is at answered a header type with bit 0x80
  published,          \* how many devices pci_register_bus_devices has
                      \* registered
  g_pci_root_buses,   \* the global list of root buses
  pc,                 \* the position of pci_register_controller
  g_pci_lock,         \* the task that holds g_pci_lock, or NULL
  task                \* the registry calls of concurrent tasks: the call,
                      \* its position, its return value and (history) the
                      \* callbacks it made

registry_vars ==
  <<g_pci_device_list, g_pci_driver_list, pci_devs, attached, last>>

order_vars == <<plan, alt>>

scan_vars ==
  <<pci_ctrl, windows, pci_buses, pci_cfg, scan_stack, published,
    g_pci_root_buses, pc>>

lock_vars == <<g_pci_lock, task>>

vars == <<registry_vars, order_vars, lock_vars, scan_vars>>

Range(seq) == {seq[i] : i \in DOMAIN seq}

\* list_delete: the list without the node.
RECURSIVE list_delete(_, _)
list_delete(list, node) ==
  IF list = << >> THEN << >>
  ELSE IF Head(list) = node THEN Tail(list)
  ELSE << Head(list) >> \o list_delete(Tail(list), node)

\* ------------------------------------------------------------------------
\* The matcher
\* ------------------------------------------------------------------------

\* The value of the C expression (id)->class_mask == 0.
ClassMaskIsZero(id) == IF id.class_mask = 0 THEN 1 ELSE 0

\* pci_match_one_device(id, dev): the last conjunct is the integer
\* (id->class ^ dev->class) & (id->class_mask == 0), true when non-zero.
pci_match_one_device(id, dev) ==
  /\ (id.vendor = PCI_ANY_ID \/ id.vendor = dev.vendor)
  /\ (id.device = PCI_ANY_ID \/ id.device = dev.device)
  /\ (id.subvendor = PCI_ANY_ID \/ id.subvendor = dev.subsystem_vendor)
  /\ (id.subdevice = PCI_ANY_ID \/ id.subdevice = dev.subsystem_device)
  /\ BitAnd(BitXor(id.class, dev.class), ClassMaskIsZero(id)) # 0

\* ------------------------------------------------------------------------
\* Callbacks
\* ------------------------------------------------------------------------

\* A call of drv->probe(dev) returning ret, made while dev->drv was cur.
ProbeCall(drv, d, ret, cur) ==
  [cb |-> "probe", drv |-> drv, dev |-> d, ret |-> ret, bound |-> cur]

\* A call of drv->remove(dev), made while dev->drv was cur.
RemoveCall(drv, d, cur) ==
  [cb |-> "remove", drv |-> drv, dev |-> d, ret |-> 0, bound |-> cur]

\* A wrong test of the probe result: a negative return binds too.
ProbeSucceeded_inverted(ret) == ret <= 0

\* The test "drv->probe(dev) >= 0" of both registration loops.
ProbeSucceeded(ret) == ret >= 0

\* ------------------------------------------------------------------------
\* pci_register_driver
\* ------------------------------------------------------------------------

\* The id loop of pci_register_driver for one device:
\*   for (id = drv->id_table; id->vendor; id++)
\*     if (pci_match_one_device(id, dev))
\*       if (drv->probe(dev) >= 0) dev->drv = drv;
\* acc = [drv |-> dev->drv so far, calls |-> callbacks so far].
RECURSIVE DriverIdLoop(_, _, _, _, _, _)
DriverIdLoop(drv, d, dev, ret, i, acc) ==
  LET id == id_table(drv)[i] IN
  IF id.vendor = 0 THEN acc
  ELSE IF pci_match_one_device(id, dev)
  THEN DriverIdLoop(drv, d, dev, ret, i + 1,
         [drv |-> IF ProbeSucceeded(ret) THEN drv ELSE acc.drv,
          calls |-> Append(acc.calls, ProbeCall(drv, d, ret, acc.drv))])
  ELSE DriverIdLoop(drv, d, dev, ret, i + 1, acc)

\* The body of the device loop of pci_register_driver: a bound device is
\* skipped.
RegisterDriverVisit(drv, d, dev, ret) ==
  IF dev.drv # NULL
  THEN [drv |-> dev.drv, calls |-> << >>]
  ELSE DriverIdLoop(drv, d, dev, ret, 1, [drv |-> dev.drv, calls |-> << >>])

\* list_for_every_entry(&g_pci_device_list, dev, ...) of pci_register_driver,
\* from position k on.  rets[d] is what drv->probe(d) returns.
RECURSIVE RegisterDriverLoop(_, _, _, _, _, _)
RegisterDriverLoop(devlist, k, devs, drv, rets, calls) ==
  IF k > Len(devlist) THEN [devs |-> devs, calls |-> calls]
  ELSE LET d == devlist[k]
           r == RegisterDriverVisit(drv, d, devs[d], rets[d])
       IN RegisterDriverLoop(devlist, k + 1, [devs EXCEPT ![d].drv = r.drv],
                             drv, rets, calls \o r.calls)

\* pci_register_driver(drv) on a registry <<devlist, drvlist, devs>>.
RegisterDriver(devlist, drvlist, devs, drv, rets) ==
  LET r == RegisterDriverLoop(devlist, 1, devs, drv, rets, << >>) IN
  [device_list |-> devlist, driver_list |-> Append(drvlist, drv),
   devs |-> r.devs, calls |-> r.calls, ret |-> 0]

\* ------------------------------------------------------------------------
\* pci_register_device
\* ------------------------------------------------------------------------

\* The id loop of pci_register_device for one driver:
\*   for (id = drv->id_table; id->vendor; id++)
\*     if (pci_match_one_device(id, dev))
\*       if (drv->probe(dev) >= 0) { dev->drv = drv; break; }
\* The break leaves this loop only.
RECURSIVE DeviceIdLoop(_, _, _, _, _, _)
DeviceIdLoop(drv, d, dev, ret, i, acc) ==
  LET id == id_table(drv)[i] IN
  IF id.vendor = 0 THEN acc
  ELSE IF pci_match_one_device(id, dev)
  THEN LET called == Append(acc.calls, ProbeCall(drv, d, ret, acc.drv)) IN
       IF ProbeSucceeded(ret)
       THEN [drv |-> drv, calls |-> called]
       ELSE DeviceIdLoop(drv, d, dev, ret, i + 1,
                         [drv |-> acc.drv, calls |-> called])
  ELSE DeviceIdLoop(drv, d, dev, ret, i + 1, acc)

\* list_for_every_entry(&g_pci_driver_list, drv, ...) of pci_register_device,
\* from position k on: every driver of the list is visited.  rets[drv] is
\* what drv->probe(d) returns.
RECURSIVE RegisterDeviceLoop(_, _, _, _, _, _)
RegisterDeviceLoop(drvlist, k, d, dev, rets, acc) ==
  IF k > Len(drvlist) THEN acc
  ELSE RegisterDeviceLoop(drvlist, k + 1, d, dev, rets,
         DeviceIdLoop(drvlist[k], d, dev, rets[drvlist[k]], 1, acc))

\* pci_register_device(dev) on a registry <<devlist, drvlist, devs>>.
RegisterDevice(devlist, drvlist, devs, d, rets) ==
  LET r == RegisterDeviceLoop(drvlist, 1, d, devs[d], rets,
                              [drv |-> devs[d].drv, calls |-> << >>]) IN
  [device_list |-> Append(devlist, d), driver_list |-> drvlist,
   devs |-> [devs EXCEPT ![d].drv = r.drv], calls |-> r.calls, ret |-> 0]

\* ------------------------------------------------------------------------
\* pci_unregister_driver
\* ------------------------------------------------------------------------

\* The loop body without "dev->drv = NULL".
UnregisterDriverVisit_noclear(drv, d, dev) ==
  IF dev.drv = drv
  THEN [drv |-> dev.drv, calls |-> << RemoveCall(drv, d, dev.drv) >>]
  ELSE [drv |-> dev.drv, calls |-> << >>]

\* The loop body testing "dev->drv != NULL" instead of "dev->drv == drv".
UnregisterDriverVisit_anydrv(drv, d, dev) ==
  IF dev.drv # NULL
  THEN [drv |-> NULL, calls |-> << RemoveCall(drv, d, dev.drv) >>]
  ELSE [drv |-> dev.drv, calls |-> << >>]

\* The body of the device loop of pci_unregister_driver:
\*   if (dev->drv == drv) { drv->remove(dev); dev->drv = NULL; }
UnregisterDriverVisit(drv, d, dev) ==
  IF dev.drv = drv
  THEN [drv |-> NULL, calls |-> << RemoveCall(drv, d, dev.drv) >>]
  ELSE [drv |-> dev.drv, calls |-> << >>]

RECURSIVE UnregisterDriverLoop(_, _, _, _, _)
UnregisterDriverLoop(devlist, k, devs, drv, calls) ==
  IF k > Len(devlist) THEN [devs |-> devs, calls |-> calls]
  ELSE LET d == devlist[k]
           r == UnregisterDriverVisit(drv, d, devs[d])
       IN UnregisterDriverLoop(devlist, k + 1, [devs EXCEPT ![d].drv = r.drv],
                               drv, calls \o r.calls)

\* pci_unregister_driver(drv) on a registry <<devlist, drvlist, devs>>.
UnregisterDriver(devlist, drvlist, devs, drv) ==
  LET r == UnregisterDriverLoop(devlist, 1, devs, drv, << >>) IN
  [device_list |-> devlist, driver_list |-> list_delete(drvlist, drv),
   devs |-> r.devs, calls |-> r.calls, ret |-> 0]

\* ------------------------------------------------------------------------
\* pci_unregister_device
\* ------------------------------------------------------------------------

\* pci_unregister_device without the remove callback.
UnregisterDeviceCalls_noremove(d, dev) == << >>

\* if (dev->drv && dev->drv->remove) dev->drv->remove(dev);
UnregisterDeviceCalls(d, dev) ==
  IF dev.drv # NULL /\ has_remove(dev.drv)
  THEN << RemoveCall(dev.drv, d, dev.drv) >>
  ELSE << >>

\* pci_unregister_device(dev) on a registry <<devlist, drvlist, devs>>.
UnregisterDevice(devlist, drvlist, devs, d) ==
  [device_list |-> list_delete(devlist, d), driver_list |-> drvlist,
   devs |-> [devs EXCEPT ![d].drv = NULL],
   calls |-> UnregisterDeviceCalls(d, devs[d]), ret |-> 0]

\* ------------------------------------------------------------------------
\* History of the callbacks
\* ------------------------------------------------------------------------

\* attached after the callbacks of calls, in order: a successful probe
\* attaches the driver to the device, a remove detaches it.
RECURSIVE Attach(_, _)
Attach(att, calls) ==
  IF calls = << >> THEN att
  ELSE LET c == Head(calls) IN
       Attach([att EXCEPT ![c.dev] =
                 IF c.cb = "remove" THEN @ \ {c.drv}
                 ELSE IF c.ret >= 0 THEN @ \cup {c.drv}
                 ELSE @],
              Tail(calls))

\* ------------------------------------------------------------------------
\* The registry as a state machine
\* ------------------------------------------------------------------------

\* The state after a handler that produced r.
Registry(r, op, drv, d) ==
  /\ g_pci_device_list' = r.device_list
  /\ g_pci_driver_list' = r.driver_list
  /\ pci_devs' = r.devs
  /\ attached' = Attach(attached, r.calls)
  /\ last' = [op |-> op, drv |-> drv, dev |-> d, ret |-> r.ret,
              calls |-> r.calls]

InitRegistry ==
  /\ g_pci_device_list = << >>
  /\ g_pci_driver_list = << >>
  /\ pci_devs = [d \in Devices |->
                   NewDevice(DeviceIdents[((d - 1) % Len(DeviceIdents)) + 1])]
  /\ attached = [d \in Devices |-> {}]
  /\ last = [op |-> "none", drv |-> NULL, dev |-> NULL, ret |-> 0,
             calls |-> << >>]

\* No controller has been registered.
InitController ==
  /\ pci_ctrl = NULL
  /\ windows = NULL
  /\ pci_buses = << >>
  /\ pci_cfg = << >>
  /\ scan_stack = << >>
  /\ published = 0
  /\ g_pci_root_buses = << >>
  /\ pc = "idle"

\* g_pci_lock is free and no task is inside a registry call.
InitLock ==
  /\ g_pci_lock = NULL
  /\ task = << >>

\* An empty registry over the device records devs.
EmptyRegistry(devs) ==
  [device_list |-> << >>, driver_list |-> << >>, devs |-> devs]

Init ==
  /\ InitRegistry
  /\ InitController
  /\ plan = [drivers |-> << >>, devices |-> << >>, probe |-> << >>]
  /\ alt = EmptyRegistry(pci_devs)
  /\ InitLock

\* pci_register_driver(drv) where drv->probe(d) returns rets[d].
\* DEBUGASSERT(drv != NULL && drv->probe != NULL && drv->id_table != NULL);
\* a driver is registered once.
RegisterDriverCall(drv, rets) ==
  /\ drv \notin Range(g_pci_driver_list)
  /\ Registry(RegisterDriver(g_pci_device_list, g_pci_driver_list,
                             pci_devs, drv, rets),
              "pci_register_driver", drv, NULL)

\* pci_register_device(d) where drv->probe(d) returns rets[drv].  A device
\* is registered once.
RegisterDeviceCall(d, rets) ==
  /\ d \notin Range(g_pci_device_list)
  /\ Registry(RegisterDevice(g_pci_device_list, g_pci_driver_list,
                             pci_devs, d, rets),
              "pci_register_device", NULL, d)

pci_register_driver(drv) ==
  /\ \E rets \in [Range(g_pci_device_list) -> ProbeRets] :
       RegisterDriverCall(drv, rets)
  /\ UNCHANGED <<order_vars, lock_vars, scan_vars>>

\* DEBUGASSERT(drv != NULL && drv->remove != NULL); drv is in the list.
pci_unregister_driver(drv) ==
  /\ drv \in Range(g_pci_driver_list)
  /\ has_remove(drv)
  /\ Registry(UnregisterDriver(g_pci_device_list, g_pci_driver_list,
                               pci_devs, drv),
              "pci_unregister_driver", drv, NULL)
  /\ UNCHANGED <<order_vars, lock_vars, scan_vars>>

pci_register_device(d) ==
  /\ \E rets \in [Range(g_pci_driver_list) -> ProbeRets] :
       RegisterDeviceCall(d, rets)
  /\ UNCHANGED <<order_vars, lock_vars, scan_vars>>

\* dev is in the list.
pci_unregister_device(d) ==
  /\ d \in Range(g_pci_device_list)
  /\ Registry(UnregisterDevice(g_pci_device_list, g_pci_driver_list,
                               pci_devs, d),
              "pci_unregister_device", NULL, d)
  /\ UNCHANGED <<order_vars, lock_vars, scan_vars>>

Next ==
  \/ \E drv \in Drivers : pci_register_driver(drv)
  \/ \E drv \in Drivers : pci_unregister_driver(drv)
  \/ \E d \in Devices : pci_register_device(d)
  \/ \E d \in Devices : pci_unregister_device(d)

Spec == Init /\ [][Next]_vars

\* ------------------------------------------------------------------------
\* Registration order: the same drivers and devices registered drivers
\* first (in the registry proper) and devices first (in alt), every
\* probe(drv, dev) returning the same value in both.
\* ------------------------------------------------------------------------

\* The orderings of a set.
Orders(S) ==
  {s \in [1..Cardinality(S) -> S] : \A i, j \in DOMAIN s : s[i] = s[j] => i = j}

InitOrder ==
  /\ InitRegistry
  /\ InitController
  /\ plan \in [drivers : Orders(Drivers), devices : Orders(Devices),
               probe : [Drivers -> [Devices -> ProbeRets]]]
  /\ alt = EmptyRegistry(pci_devs)
  /\ InitLock

\* What the probes of every driver return for device d.
ProbeColumn(d) == [drv \in Drivers |-> plan.probe[drv][d]]

\* Drivers first: the next driver of the plan.
DriversFirstDriver ==
  /\ Len(g_pci_driver_list) < Len(plan.drivers)
  /\ RegisterDriverCall(plan.drivers[Len(g_pci_driver_list) + 1],
                        plan.probe[plan.drivers[Len(g_pci_driver_list) + 1]])
  /\ UNCHANGED <<order_vars, lock_vars, scan_vars>>

\* Drivers first: all drivers are registered, the next device of the plan.
DriversFirstDevice ==
  /\ Len(g_pci_driver_list) = Len(plan.drivers)
  /\ Len(g_pci_device_list) < Len(plan.devices)
  /\ RegisterDeviceCall(plan.devices[Len(g_pci_device_list) + 1],
                        ProbeColumn(plan.devices[Len(g_pci_device_list) + 1]))
  /\ UNCHANGED <<order_vars, lock_vars, scan_vars>>

\* Devices first: the next device of the plan.
DevicesFirstDevice ==
  /\ Len(alt.device_list) < Len(plan.devices)
  /\ LET d == plan.devices[Len(alt.device_list) + 1]
         r == RegisterDevice(alt.device_list, alt.driver_list, alt.devs, d,
                             ProbeColumn(d))
     IN alt' = [device_list |-> r.device_list, driver_list |-> r.driver_list,
                devs |-> r.devs]
  /\ UNCHANGED <<registry_vars, plan, scan_vars, lock_vars>>

\* Devices first: all devices are registered, the next driver of the plan.
DevicesFirstDriver ==
  /\ Len(alt.device_list) = Len(plan.devices)
  /\ Len(alt.driver_list) < Len(plan.drivers)
  /\ LET drv == plan.drivers[Len(alt.driver_list) + 1]
         r == RegisterDriver(alt.device_list, alt.driver_list, alt.devs, drv,
                             plan.probe[drv])
     IN alt' = [device_list |-> r.device_list, driver_list |-> r.driver_list,
                devs |-> r.devs]
  /\ UNCHANGED <<registry_vars, plan, scan_vars, lock_vars>>

NextOrder ==
  \/ DriversFirstDriver
  \/ DriversFirstDevice
  \/ DevicesFirstDevice
  \/ DevicesFirstDriver

SpecOrder == InitOrder /\ [][NextOrder]_vars

\* Both registrations are complete.
OrderDone ==
  /\ Len(g_pci_driver_list) = Len(plan.drivers)
  /\ Len(g_pci_device_list) = Len(plan.devices)
  /\ Len(alt.driver_list) = Len(plan.drivers)
  /\ Len(alt.device_list) = Len(plan.devices)

\* ========================================================================
\* Enumeration and BAR assignment
\* ========================================================================

\* ------------------------------------------------------------------------
\* Machine words.  A word is the set of the positions of its 1 bits, so that
\* 32-bit and 64-bit values keep their exact value and width.
\* ------------------------------------------------------------------------

\* The word of a natural number.
RECURSIVE Word(_)
Word(n) == IF n = 0 THEN {} ELSE
  (IF n % 2 = 1 THEN {0} ELSE {}) \cup {i + 1 : i \in Word(n \div 2)}

\* The natural number of a (short) word.
RECURSIVE Nat2(_)
Nat2(w) == IF w = {} THEN 0 ELSE
  (IF 0 \in w THEN 1 ELSE 0) + 2 * Nat2({i - 1 : i \in w \ {0}})

\* The bits lo..hi set.
Ones(lo, hi) == lo..hi

\* a + b + carry from bit i upwards, in a word of the given width.
RECURSIVE AddFrom(_, _, _, _, _)
AddFrom(a, b, i, carry, width) ==
  IF i >= width THEN {}
  ELSE LET sum == (IF i \in a THEN 1 ELSE 0) + (IF i \in b THEN 1 ELSE 0) + carry
       IN (IF sum % 2 = 1 THEN {i} ELSE {}) \cup
          AddFrom(a, b, i + 1, sum \div 2, width)

\* C arithmetic on unsigned words of the given width: + - ~ with wrap-around.
Add(a, b, width) == AddFrom(a, b, 0, 0, width)

Not(a, width) == Ones(0, width - 1) \ a

Sub(a, b, width) == AddFrom(a, Not(b, width), 0, 1, width)

\* a >> n, a << n (in a word of the given width)
Shr(a, n) == {i - n : i \in {j \in a : j >= n}}

Shl(a, n, width) == {i + n : i \in {j \in a : j + n < width}}

\* Unsigned a < b: the highest bit in which they differ is b's.
Max(S) == CHOOSE x \in S : \A y \in S : y <= x

Less(a, b) ==
  LET diff == (a \ b) \cup (b \ a) IN diff # {} /\ Max(diff) \in b

\* The widths of uint32_t and of uintptr_t (a 64-bit target: pci_setup_device
\* shifts a uintptr_t right by 32).
U32 == 32

UPTR == 64

\* #define ALIGN(x, m) (((x) + ((m) - 1)) & ~((uintptr_t)(m) - 1))
ALIGN(x, m) ==
  Add(x, Sub(m, {0}, UPTR), UPTR) \cap Not(Sub(m, {0}, UPTR), UPTR)

\* ------------------------------------------------------------------------
\* pci_size
\* ------------------------------------------------------------------------

\* static uint32_t pci_size(uint32_t base, uint32_t maxbase, uint32_t mask)
pci_size(base, maxbase, mask) ==
  LET size0 == maxbase \cap mask
      size == Sub(size0 \cap Not(Sub(size0, {0}, U32), U32), {0}, U32)
  IN IF size0 = {} THEN {}
     ELSE IF base = maxbase /\ ((base \cup size) \cap mask) # mask THEN {}
     ELSE Add(size, {0}, U32)

\* ------------------------------------------------------------------------
\* Configuration space
\* ------------------------------------------------------------------------

\* Register offsets.
PCI_VENDOR_ID == 0

PCI_COMMAND == 4

PCI_STATUS == 6

PCI_CLASS_REVISION == 8

PCI_HEADER_TYPE == 14

PCI_BASE_ADDRESS_0 == 16

PCI_BASE_ADDRESS_1 == 20

PCI_PRIMARY_BUS == 24

PCI_SECONDARY_BUS == 25

PCI_SUBORDINATE_BUS == 26

PCI_IO_BASE == 28

PCI_IO_LIMIT == 29

PCI_MEMORY_BASE == 32

PCI_MEMORY_LIMIT == 34

PCI_PREF_MEMORY_BASE == 36

PCI_PREF_MEMORY_LIMIT == 38

PCI_PREF_BASE_UPPER32 == 40

PCI_PREF_LIMIT_UPPER32 == 44

PCI_SUBSYSTEM_VENDOR_ID == 44

PCI_SUBSYSTEM_ID == 46

PCI_IO_BASE_UPPER16 == 48

PCI_IO_LIMIT_UPPER16 == 50

\* The capability pointer of a normal or bridge header and of a CardBus
\* header, and the offset of the next pointer within a capability.
PCI_CAPABILITY_LIST == 52

PCI_CB_CAPABILITY_LIST == 20

PCI_CAP_LIST_NEXT == 1

\* Bits of the COMMAND register and of a BAR.
PCI_COMMAND_IO == {0}

PCI_COMMAND_MEMORY == {1}

PCI_COMMAND_MASTER == {2}

\* Bit 0x10 of the STATUS register.
PCI_STATUS_CAP_LIST == {4}

PCI_BASE_ADDRESS_SPACE_IO == {0}

PCI_BASE_ADDRESS_MEM_TYPE_64 == {2}

PCI_BASE_ADDRESS_MEM_PREFETCH == {3}

\* Header types and the class of a PCI-to-PCI bridge.
PCI_HEADER_TYPE_NORMAL == 0

PCI_HEADER_TYPE_BRIDGE == 1

PCI_HEADER_TYPE_CARDBUS == 2

PCI_CLASS_BRIDGE_PCI == 1540

\* Resource flags.
PCI_RESOURCE_IO == {"IO"}

PCI_RESOURCE_MEM == {"MEM"}

PCI_RESOURCE_PREFETCH == {"PREFETCH"}

PCI_RESOURCE_MEM_64 == {"MEM_64"}

\* Number of resource slots of a device.
PCI_NUM_RESOURCES == 6

\* #define PCI_FUNC(devfn) ((devfn) & 0x07)
PCI_FUNC(devfn) == devfn % 8

\* The configuration space of one function: c.fn describes the hardware,
\* c.written holds the bytes software has written, by offset.

\* How many BARs the header of a function has: six in a type 0 header, two
\* in a bridge's.
NumBars(fn) ==
  IF fn.hdr_type % 128 = PCI_HEADER_TYPE_NORMAL THEN 6
  ELSE IF fn.hdr_type % 128 = PCI_HEADER_TYPE_BRIDGE THEN 2
  ELSE 0

\* Whether a dword access at where addresses a BAR register of the function.
IsBar(fn, where) ==
  /\ where >= PCI_BASE_ADDRESS_0
  /\ where % 4 = 0
  /\ (where - PCI_BASE_ADDRESS_0) \div 4 < NumBars(fn)

\* The BAR at a BAR register: a register past the BARs the function
\* implements is hardwired to zero.
BarAt(fn, where) ==
  IF (where - PCI_BASE_ADDRESS_0) \div 4 < Len(fn.bars)
  THEN fn.bars[(where - PCI_BASE_ADDRESS_0) \div 4 + 1]
  ELSE [orig |-> {}, mask |-> {}]

\* The dword the hardware holds at a 4-aligned offset before any write.
HwDword(fn, off) ==
  IF off = PCI_VENDOR_ID THEN fn.l
  ELSE IF off = PCI_COMMAND THEN fn.command \cup Shl(fn.status, 16, U32)
  ELSE IF off = PCI_CLASS_REVISION THEN fn.class_rev
  ELSE IF off = 12 THEN Shl(Word(fn.hdr_type), 16, U32)
  ELSE IF IsBar(fn, off) THEN BarAt(fn, off).orig
  ELSE IF off = PCI_SUBSYSTEM_VENDOR_ID /\
          fn.hdr_type % 128 = PCI_HEADER_TYPE_NORMAL
  THEN fn.subsystem
  ELSE IF off \in DOMAIN fn.caps THEN fn.caps[off]
  ELSE {}

\* The byte (bits 0..7) stored at an offset.
StoredByte(c, off) ==
  IF off \in DOMAIN c.written THEN c.written[off]
  ELSE {b - 8 * (off % 4) :
          b \in {x \in HwDword(c.fn, off - (off % 4)) : x \div 8 = off % 4}}

\* The little-endian value of size bytes stored from offset where.
Stored(c, where, size) ==
  UNION {{8 * k + b : b \in StoredByte(c, where + k)} : k \in 0..(size - 1)}

\* ops->read: a BAR that holds the sizing pattern 0xfffffffe reads back as
\* its mask; everything else reads back as stored.
ConfigRead(c, where, size) ==
  IF size = 4 /\ IsBar(c.fn, where) /\ Stored(c, where, 4) = Ones(1, 31)
  THEN BarAt(c.fn, where).mask
  ELSE Stored(c, where, size)

\* ops->write of the low size bytes of value.
ConfigWrite(c, where, size, value) ==
  [c EXCEPT !.written =
     [off \in DOMAIN c.written \cup where..(where + size - 1) |->
        IF off \in where..(where + size - 1)
        THEN {b - 8 * (off - where) :
                b \in {x \in value : x \div 8 = off - where}}
        ELSE c.written[off]]]

\* ------------------------------------------------------------------------
\* Records.  The machine state m threaded through the scanner has the
\* fields of the state variables: ctrl (the controller), buses, devs, cfg
\* (configuration spaces, by device) and stack (the active pci_scan_bus
\* calls, innermost last).
\* ------------------------------------------------------------------------

\* pci_alloc_bus: a zeroed bus with empty lists.
pci_alloc_bus ==
  [number |-> 0, parent_bus |-> NULL, children |-> << >>, devices |-> << >>]

\* pci_alloc_device: a zeroed device.
pci_alloc_device ==
  [bus |-> NULL, devfn |-> 0, vendor |-> 0, device |-> 0, revision |-> 0,
   class |-> 0, hdr_type |-> 0, subsystem_vendor |-> 0,
   subsystem_device |-> 0,
   resource |-> [r \in 0..(PCI_NUM_RESOURCES - 1) |->
                   [start |-> {}, end |-> {}, flags |-> {}]],
   subordinate |-> NULL, drv |-> NULL]

\* pci_write_config_{byte,word,dword}(dev, where, value)
pci_write_config(m, d, where, size, value) ==
  [m EXCEPT !.cfg[d] = ConfigWrite(@, where, size, value)]

\* pci_read_config_{byte,word,dword}(dev, where, &value)
pci_read_config(m, d, where, size) == ConfigRead(m.cfg[d], where, size)

\* pci_resource_size(res): 0 for the all-zero window, else end - start + 1.
pci_resource_size(res) ==
  IF res.start = {} /\ res.end = {} THEN {}
  ELSE Add(Sub(res.end, res.start, UPTR), {0}, UPTR)

\* ------------------------------------------------------------------------
\* The configuration accessors pci_bus_{read,write}_config_{byte,word,dword}
\* ------------------------------------------------------------------------

\* errno: Invalid argument.
EINVAL == 22

\* PCI_dword_BAD tested like PCI_word_BAD.
PCI_BAD_lowbit(size, where) ==
  IF size = 1 THEN 0 ELSE BitAnd(where, 1)

\* #define PCI_byte_BAD  0
\* #define PCI_word_BAD  ((where) & 1)
\* #define PCI_dword_BAD ((where) & 3)
PCI_BAD(size, where) ==
  IF size = 1 THEN 0
  ELSE IF size = 2 THEN BitAnd(where, 1)
  ELSE BitAnd(where, 3)

\* A call of ops->read or ops->write by an accessor.
BackendCall(cb, d, where, size) ==
  [cb |-> cb, dev |-> d, where |-> where, size |-> size]

\* PCI_BUS_READ_CONFIG(len, type, size) on the configuration space c of
\* device d, where ops->read returns bret (and, when that is 0, has stored
\* what the function holds): the return value, *value = (type)data and the
\* calls of the backend.
PCI_BUS_READ_CONFIG(c, d, where, size, bret) ==
  IF PCI_BAD(size, where) # 0
  THEN [ret |-> -EINVAL, value |-> {}, calls |-> << >>]
  ELSE [ret |-> bret,
        value |-> IF bret = 0
                  THEN ConfigRead(c, where, size) \cap Ones(0, 8 * size - 1)
                  ELSE {},
        calls |-> << BackendCall("read", d, where, size) >>]

\* PCI_BUS_WRITE_CONFIG(len, type, size), where ops->write returns bret
\* (and, when that is 0, the function holds the value): the return value,
\* the configuration space and the calls of the backend.
PCI_BUS_WRITE_CONFIG(c, d, where, size, value, bret) ==
  IF PCI_BAD(size, where) # 0
  THEN [ret |-> -EINVAL, cfg |-> c, calls |-> << >>]
  ELSE [ret |-> bret,
        cfg |-> IF bret = 0 THEN ConfigWrite(c, where, size, value) ELSE c,
        calls |-> << BackendCall("write", d, where, size) >>]

\* ------------------------------------------------------------------------
\* The capability walk
\* ------------------------------------------------------------------------

\* int ttl = 48;
CapTtl == 48

\* What a successful accessor read leaves in *value, as a number.
ReadValue(c, where, size) ==
  Nat2(PCI_BUS_READ_CONFIG(c, 0, where, size, 0).value)

\* static uint8_t pci_bus_find_start_cap(bus, devfn, hdr_type)
pci_bus_find_start_cap(c, hdr_type) ==
  IF ConfigRead(c, PCI_STATUS, 2) \cap PCI_STATUS_CAP_LIST = {} THEN 0
  ELSE IF hdr_type = PCI_HEADER_TYPE_NORMAL \/ hdr_type = PCI_HEADER_TYPE_BRIDGE
  THEN PCI_CAPABILITY_LIST
  ELSE IF hdr_type = PCI_HEADER_TYPE_CARDBUS THEN PCI_CB_CAPABILITY_LIST
  ELSE 0

\* while ((*ttl)--) { ... } return 0; of pci_find_next_cap_ttl, with pos
\* the pointer read last and reads the number of capabilities read so far.
RECURSIVE CapLoop(_, _, _, _, _)
RECURSIVE CapEntry(_, _, _, _, _, _)
CapLoop(c, pos, cap, ttl, reads) ==
  IF ttl = 0 \/ pos < 64 \/ reads < 0 THEN [ret |-> 0, reads |-> reads]
  ELSE CapEntry(c, pos - (pos % 4), cap, ttl, reads,
                ReadValue(c, pos - (pos % 4), 2))

\* The loop body after pci_bus_read_config_word(bus, devfn, pos, &ent).
CapEntry(c, pos, cap, ttl, reads, ent) ==
  IF ent % 256 = 255 THEN [ret |-> 0, reads |-> reads + 1]
  ELSE IF ent % 256 = cap THEN [ret |-> pos, reads |-> reads + 1]
  ELSE CapLoop(c, ent \div 256, cap, ttl - 1, reads + 1)

\* static uint8_t pci_find_next_cap_ttl(bus, devfn, pos, cap, &ttl)
pci_find_next_cap_ttl(c, pos, cap, ttl) ==
  CapLoop(c, ReadValue(c, pos, 1), cap, ttl, 0)

\* pci_find_next_cap with a time to live of 49.
pci_find_next_cap_ttl49(c, pos, cap) ==
  pci_find_next_cap_ttl(c, pos, cap, CapTtl + 1)

\* static uint8_t pci_find_next_cap(bus, devfn, pos, cap)
pci_find_next_cap(c, pos, cap) == pci_find_next_cap_ttl(c, pos, cap, CapTtl)

\* uint8_t pci_find_capability(FAR struct pci_device_s *dev, int cap)
FindCapability(c, dev, cap) ==
  LET pos == pci_bus_find_start_cap(c, dev.hdr_type) IN
  IF pos # 0 THEN pci_find_next_cap(c, pos, cap)
  ELSE [ret |-> 0, reads |-> 0]

\* uint8_t pci_find_next_capability(dev, pos, cap); pos is a uint8_t.
FindNextCapability(c, pos, cap) ==
  pci_find_next_cap(c, (pos + PCI_CAP_LIST_NEXT) % 256, cap)

\* ------------------------------------------------------------------------
\* pci_setup_device
\* ------------------------------------------------------------------------

\* The choice of the window without the prefetchable case.
BarWindow_nopref(ctrl, mask) ==
  IF mask \cap PCI_BASE_ADDRESS_SPACE_IO # {} THEN "io" ELSE "mem"

\* The controller window a BAR with this readback mask is allocated from.
BarWindow(ctrl, mask) ==
  IF mask \cap PCI_BASE_ADDRESS_SPACE_IO # {} THEN "io"
  ELSE IF mask \cap PCI_BASE_ADDRESS_MEM_PREFETCH # {} /\
          pci_resource_size(ctrl.mem_pref) # {}
  THEN "mem_pref"
  ELSE "mem"

\* The resource flags of a BAR allocated from a window.
BarFlags(win) ==
  IF win = "io" THEN PCI_RESOURCE_IO
  ELSE IF win = "mem_pref" THEN PCI_RESOURCE_MEM \cup PCI_RESOURCE_PREFETCH
  ELSE PCI_RESOURCE_MEM

\* The size of a BAR: pci_size with mask 0xfffffff0 (I/O) or 0xfffffffe.
BarSize(orig, mask) ==
  pci_size(orig, mask,
           IF mask \cap PCI_BASE_ADDRESS_SPACE_IO # {} THEN Ones(4, 31)
           ELSE Ones(1, 31))

\* if (ALIGN(res->start, size) + size > res->end)
DoesNotFit(res, size) ==
  Less(res.end, Add(ALIGN(res.start, size), size, UPTR))

\* "res->start = ALIGN(res->start, size)" without the alignment.
AlignedStart_unaligned(res, size) == res.start

\* res->start = ALIGN(res->start, size);
AlignedStart(res, size) == ALIGN(res.start, size)

\* "res->start += size" without the addition.
AdvancedStart_stays(start, size) == start

\* res->start += size;
AdvancedStart(start, size) == Add(start, size, UPTR)

\* A sequence of configuration writes <<where, size, value>> to device d.
RECURSIVE WriteAll(_, _, _)
WriteAll(m, d, writes) ==
  IF writes = << >> THEN m
  ELSE WriteAll(pci_write_config(m, d, Head(writes)[1], Head(writes)[2],
                                 Head(writes)[3]),
                d, Tail(writes))

\* pci_read_config_dword(dev, base_address_0, &orig);
BarOrig(m, d, bar) == pci_read_config(m, d, PCI_BASE_ADDRESS_0 + bar * 4, 4)

\* pci_write_config_dword(dev, base_address_0, 0xfffffffe);
\* pci_read_config_dword(dev, base_address_0, &mask);
BarMask(m, d, bar) ==
  pci_read_config(
    pci_write_config(m, d, PCI_BASE_ADDRESS_0 + bar * 4, 4, Ones(1, 31)),
    d, PCI_BASE_ADDRESS_0 + bar * 4, 4)

\* The configuration space after the sizing accesses: the BAR holds orig
\* again.
BarSized(m, d, bar, orig) ==
  WriteAll(m, d, << <<PCI_BASE_ADDRESS_0 + bar * 4, 4, Ones(1, 31)>>,
                    <<PCI_BASE_ADDRESS_0 + bar * 4, 4, orig>> >>)

\* The assignment of a BAR that fits: the BAR is programmed with start
\* (and base_address_1 with the upper half if the mask says 64-bit), the
\* window moves past it and the resource is recorded.
AssignBar(m, d, bar, mask, win, size, start) ==
  [WriteAll(m, d,
     << <<PCI_BASE_ADDRESS_0 + bar * 4, 4, start>> >>
     \o (IF mask \cap PCI_BASE_ADDRESS_MEM_TYPE_64 # {}
         THEN << <<PCI_BASE_ADDRESS_1 + bar * 4, 4, Shr(start, 32)>> >>
         ELSE << >>))
   EXCEPT
     !.ctrl[win].start = AdvancedStart(start, size),
     !.devs[d].resource[bar] =
       [start |-> start,
        end |-> Sub(Add(start, size, UPTR), {0}, UPTR),
        flags |-> BarFlags(win) \cup
                  (IF mask \cap PCI_BASE_ADDRESS_MEM_TYPE_64 # {}
                   THEN PCI_RESOURCE_MEM_64 ELSE {})]]

\* The index of the BAR after this one: "bar++" once more for a 64-bit BAR.
NextBar(bar, mask) ==
  IF mask \cap PCI_BASE_ADDRESS_MEM_TYPE_64 # {} THEN bar + 2 ELSE bar + 1

\* The BAR loop of pci_setup_device from index bar on.  The result says
\* whether the function returned from inside the loop ("does not fit").
RECURSIVE SetupBars(_, _, _, _)
RECURSIVE SetupBar(_, _, _, _, _, _)
RECURSIVE SetupSizedBar(_, _, _, _, _, _, _)
SetupBars(m, d, bar, max_bar) ==
  IF bar >= max_bar THEN [m |-> m, returned |-> FALSE]
  ELSE SetupBar(BarSized(m, d, bar, BarOrig(m, d, bar)), d, bar, max_bar,
                BarOrig(m, d, bar), BarMask(m, d, bar))

\* The loop body after the sizing accesses.
SetupBar(m, d, bar, max_bar, orig, mask) ==
  IF mask = {} \/ mask = Ones(0, 31) THEN SetupBars(m, d, bar + 1, max_bar)
  ELSE SetupSizedBar(m, d, bar, max_bar, mask, BarWindow(m.ctrl, mask),
                     BarSize(orig, mask))

\* The loop body from "if (size == 0)" on.
SetupSizedBar(m, d, bar, max_bar, mask, win, size) ==
  IF size = {} THEN SetupBars(m, d, bar + 1, max_bar)
  ELSE IF DoesNotFit(m.ctrl[win], size) THEN [m |-> m, returned |-> TRUE]
  ELSE SetupBars(AssignBar(m, d, bar, mask, win, size,
                           AlignedStart(m.ctrl[win], size)),
                 d, NextBar(bar, mask), max_bar)

\* pci_setup_device after the BAR loop: nothing more if the loop returned,
\* else COMMAND is restored and the device joins the list of its bus.
SetupDone(r, d, cmd) ==
  IF r.returned THEN r.m
  ELSE [pci_write_config(r.m, d, PCI_COMMAND, 1, cmd)
          EXCEPT !.buses[r.m.devs[d].bus].devices = Append(@, d)]

\* pci_setup_device with cmd read from COMMAND.
SetupWithCommand(m, d, max_bar, cmd) ==
  SetupDone(SetupBars(pci_write_config(m, d, PCI_COMMAND, 1,
                        (cmd \ PCI_COMMAND_IO) \ PCI_COMMAND_MEMORY),
                      d, 0, max_bar),
            d, cmd)

\* static void pci_setup_device(FAR struct pci_device_s *dev, int max_bar)
pci_setup_device(m, d, max_bar) ==
  SetupWithCommand(m, d, max_bar, pci_read_config(m, d, PCI_COMMAND, 1))

\* ------------------------------------------------------------------------
\* Bridges
\* ------------------------------------------------------------------------

\* The alignment of a bridge's memory windows (1 MiB) and I/O window (4 KiB).
BridgeMemAlign == {20}

BridgeIoAlign == {12}

\* static void pci_presetup_bridge(FAR struct pci_device_s *dev)
pci_presetup_bridge(m, d) ==
  LET dev == m.devs[d]
      cmdstat == pci_read_config(m, d, PCI_COMMAND, 2)
      use_mem == pci_resource_size(m.ctrl.mem) # {}
      use_pref == pci_resource_size(m.ctrl.mem_pref) # {}
      use_io == pci_resource_size(m.ctrl.io) # {}
      mem == IF use_mem THEN ALIGN(m.ctrl.mem.start, BridgeMemAlign)
             ELSE m.ctrl.mem.start
      pref == IF use_pref THEN ALIGN(m.ctrl.mem_pref.start, BridgeMemAlign)
              ELSE m.ctrl.mem_pref.start
      io == IF use_io THEN ALIGN(m.ctrl.io.start, BridgeIoAlign)
            ELSE m.ctrl.io.start
      cmd == cmdstat
               \cup (IF use_mem \/ use_pref THEN PCI_COMMAND_MEMORY ELSE {})
               \cup (IF use_io THEN PCI_COMMAND_IO ELSE {})
      m1 == [m EXCEPT !.ctrl.mem.start = mem, !.ctrl.mem_pref.start = pref,
                      !.ctrl.io.start = io]
  IN WriteAll(m1, d,
       << <<PCI_PRIMARY_BUS, 1, Word(m.buses[dev.bus].number)>>,
          <<PCI_SECONDARY_BUS, 1, Word(m.buses[dev.subordinate].number)>>,
          <<PCI_SUBORDINATE_BUS, 1, Ones(0, 7)>> >>
       \o (IF use_mem
           THEN << <<PCI_MEMORY_BASE, 2, Shr(mem \cap Ones(20, 31), 16)>> >>
           ELSE << <<PCI_MEMORY_BASE, 2, {12}>>,
                   <<PCI_MEMORY_LIMIT, 2, {}>> >>)
       \o (IF use_pref
           THEN << <<PCI_PREF_MEMORY_BASE, 2, Shr(pref \cap Ones(20, 31), 16)>>,
                   <<PCI_PREF_BASE_UPPER32, 4, Shr(pref, 32)>> >>
           ELSE << <<PCI_PREF_MEMORY_BASE, 2, {12}>>,
                   <<PCI_PREF_MEMORY_LIMIT, 2, {}>>,
                   <<PCI_PREF_BASE_UPPER32, 4, {}>>,
                   <<PCI_PREF_LIMIT_UPPER32, 4, {}>> >>)
       \o (IF use_io
           THEN << <<PCI_IO_BASE, 1, Shr(io \cap Ones(12, 15), 8)>>,
                   <<PCI_IO_BASE_UPPER16, 2, Shr(io \cap Ones(16, 31), 16)>> >>
           ELSE << >>)
       \o << <<PCI_COMMAND, 2, cmd \cup PCI_COMMAND_MASTER>> >>)

\* pci_postsetup_bridge writing the limits from start instead of start - 1.
pci_postsetup_bridge_start(m, d) ==
  LET use_mem == pci_resource_size(m.ctrl.mem) # {}
      use_pref == pci_resource_size(m.ctrl.mem_pref) # {}
      use_io == pci_resource_size(m.ctrl.io) # {}
      mem == IF use_mem THEN ALIGN(m.ctrl.mem.start, BridgeMemAlign)
             ELSE m.ctrl.mem.start
      pref == IF use_pref THEN ALIGN(m.ctrl.mem_pref.start, BridgeMemAlign)
              ELSE m.ctrl.mem_pref.start
      io == IF use_io THEN ALIGN(m.ctrl.io.start, BridgeIoAlign)
            ELSE m.ctrl.io.start
      mem_1 == mem
      pref_1 == pref
      io_1 == io
      m1 == [m EXCEPT !.ctrl.mem.start = mem, !.ctrl.mem_pref.start = pref,
                      !.ctrl.io.start = io]
  IN WriteAll(m1, d,
       << <<PCI_SUBORDINATE_BUS, 1, Word((m.ctrl.busno + 255) % 256)>> >>
       \o (IF use_mem
           THEN << <<PCI_MEMORY_LIMIT, 2, Shr(mem_1 \cap Ones(20, 31), 16)>> >>
           ELSE << >>)
       \o (IF use_pref
           THEN << <<PCI_PREF_MEMORY_LIMIT, 2,
                     Shr(pref_1 \cap Ones(20, 31), 16)>>,
                   <<PCI_PREF_LIMIT_UPPER32, 4, Shr(pref_1, 32)>> >>
           ELSE << >>)
       \o (IF use_io
           THEN << <<PCI_IO_LIMIT, 1, Shr(io_1 \cap Ones(12, 15), 8)>>,
                   <<PCI_IO_LIMIT_UPPER16, 2,
                     Shr(io_1 \cap Ones(16, 31), 16)>> >>
           ELSE << >>))

\* static void pci_postsetup_bridge(FAR struct pci_device_s *dev)
pci_postsetup_bridge(m, d) ==
  LET use_mem == pci_resource_size(m.ctrl.mem) # {}
      use_pref == pci_resource_size(m.ctrl.mem_pref) # {}
      use_io == pci_resource_size(m.ctrl.io) # {}
      mem == IF use_mem THEN ALIGN(m.ctrl.mem.start, BridgeMemAlign)
             ELSE m.ctrl.mem.start
      pref == IF use_pref THEN ALIGN(m.ctrl.mem_pref.start, BridgeMemAlign)
              ELSE m.ctrl.mem_pref.start
      io == IF use_io THEN ALIGN(m.ctrl.io.start, BridgeIoAlign)
            ELSE m.ctrl.io.start
      mem_1 == Sub(mem, {0}, UPTR)
      pref_1 == Sub(pref, {0}, UPTR)
      io_1 == Sub(io, {0}, UPTR)
      m1 == [m EXCEPT !.ctrl.mem.start = mem, !.ctrl.mem_pref.start = pref,
                      !.ctrl.io.start = io]
  IN WriteAll(m1, d,
       << <<PCI_SUBORDINATE_BUS, 1, Word((m.ctrl.busno + 255) % 256)>> >>
       \o (IF use_mem
           THEN << <<PCI_MEMORY_LIMIT, 2, Shr(mem_1 \cap Ones(20, 31), 16)>> >>
           ELSE << >>)
       \o (IF use_pref
           THEN << <<PCI_PREF_MEMORY_LIMIT, 2,
                     Shr(pref_1 \cap Ones(20, 31), 16)>>,
                   <<PCI_PREF_LIMIT_UPPER32, 4, Shr(pref_1, 32)>> >>
           ELSE << >>)
       \o (IF use_io
           THEN << <<PCI_IO_LIMIT, 1, Shr(io_1 \cap Ones(12, 15), 8)>>,
                   <<PCI_IO_LIMIT_UPPER16, 2,
                     Shr(io_1 \cap Ones(16, 31), 16)>> >>
           ELSE << >>))

\* ------------------------------------------------------------------------
\* pci_scan_bus
\* ------------------------------------------------------------------------

\* The innermost active call of pci_scan_bus.
Top(m) == m.stack[Len(m.stack)]

\* for (...; ++devfn): the end of the loop body, and "continue".
NextDevfn(m) == [m EXCEPT !.stack[Len(m.stack)].devfn = @ + 1]

\* A function as the backend answers for it, before any write.
Unwritten(fn) == [fn |-> fn, written |-> << >>]

\* The test for an empty slot without the case of a board that answers 0.
EmptyVendor_nonzero(l) ==
  l = Ones(0, 31) \/ l = Ones(0, 15) \/ l = Ones(16, 31)

\* l == 0xffffffff || l == 0x00000000 || l == 0x0000ffff || l == 0xffff0000
EmptyVendor(l) ==
  l = Ones(0, 31) \/ l = {} \/ l = Ones(0, 15) \/ l = Ones(16, 31)

\* pci_read_config_word(dev, PCI_SUBSYSTEM_ID, &dev->subsystem_device);
\* pci_read_config_word(dev, PCI_SUBSYSTEM_VENDOR_ID, &dev->subsystem_vendor);
ReadSubsystem(m, d) ==
  [m EXCEPT
    !.devs[d].subsystem_device =
      Nat2(pci_read_config(m, d, PCI_SUBSYSTEM_ID, 2)),
    !.devs[d].subsystem_vendor =
      Nat2(pci_read_config(m, d, PCI_SUBSYSTEM_VENDOR_ID, 2))]

\* case PCI_HEADER_TYPE_NORMAL of the switch, for the allocated device d.
ScanNormal(m, d) == NextDevfn(ReadSubsystem(pci_setup_device(m, d, 6), d))

\* The child bus of the bridge d: allocated, numbered, linked to its parent
\* and to the bridge.
AllocChildBus(m, d) ==
  [m EXCEPT
     !.buses = Append(
        [@ EXCEPT ![Top(m).bus].children = Append(@, Len(m.buses) + 1)],
        [pci_alloc_bus EXCEPT !.parent_bus = Top(m).bus,
                              !.number = m.ctrl.busno]),
     !.ctrl.busno = (@ + 1) % 256,
     !.devs[d].subordinate = Len(m.buses) + 1]

\* pci_scan_bus(child_bus) is called for the bridge d.
ScanChildBus(m, d) ==
  [m EXCEPT !.stack = Append(@, [bus |-> m.devs[d].subordinate, devfn |-> 0,
                                 is_multi |-> 0, bridge |-> d,
                                 fn0_multi |-> FALSE])]

\* case PCI_HEADER_TYPE_BRIDGE of the switch up to the recursive call of
\* pci_scan_bus(child_bus), for the allocated device d.
ScanBridge(m, d) ==
  ScanChildBus(pci_presetup_bridge(AllocChildBus(m, d), d), d)

\* dev = pci_alloc_device() and the fields the scanner fills in; class is
\* the dword read from PCI_CLASS_REVISION.
AllocDevice(m, fn, class) ==
  [m EXCEPT
     !.devs = Append(@, [pci_alloc_device EXCEPT
                !.bus = Top(m).bus,
                !.devfn = Top(m).devfn,
                !.vendor = Nat2(fn.l \cap Ones(0, 15)),
                !.device = Nat2(Shr(fn.l, 16) \cap Ones(0, 15)),
                !.hdr_type = fn.hdr_type,
                !.revision = Nat2(class \cap Ones(0, 7)),
                !.class = Nat2(Shr(class, 8))]),
     !.cfg = Append(@, Unwritten(fn))]

\* switch (hdr_type & 0x7f), for the allocated device d; class is the
\* upper 16 bits of the class dword.
ScanHeader(m, d, hdr_type, class) ==
  IF hdr_type % 128 = PCI_HEADER_TYPE_NORMAL
  THEN IF class = PCI_CLASS_BRIDGE_PCI THEN NextDevfn(m)
       ELSE ScanNormal(m, d)
  ELSE IF hdr_type % 128 = PCI_HEADER_TYPE_BRIDGE THEN ScanBridge(m, d)
  ELSE NextDevfn(m)

\* The loop body from pci_alloc_device on with the class dword read.
ScanClass(m, fn, class) ==
  ScanHeader(AllocDevice(m, fn, class), Len(m.devs) + 1, fn.hdr_type,
             Nat2(Shr(class, 16)))

\* The loop body from pci_alloc_device on, for a function that answered.
ScanFunction(m, fn) ==
  ScanClass(m, fn, ConfigRead(Unwritten(fn), PCI_CLASS_REVISION, 4))

\* History: at function 0 of a device, whether its header type was read
\* and has bit 0x80.
NoteFunction0(m, fn) ==
  IF PCI_FUNC(Top(m).devfn) # 0 THEN m
  ELSE [m EXCEPT !.stack[Len(m.stack)].fn0_multi =
                    fn.hdr_ret = 0 /\ fn.hdr_type >= 128]

\* One iteration of the loop of pci_scan_bus, the slot answering as fn:
\* ops->read returns fn.hdr_ret and the byte fn.hdr_type for the header
\* type, fn.vid_ret and the dword fn.l for vendor and device.
ScanSlot(m, fn) ==
  LET top == Top(m)
      hdr_type == fn.hdr_type
      is_multi == IF PCI_FUNC(top.devfn) = 0
                  THEN (hdr_type \div 128) * 128
                  ELSE top.is_multi
      m0 == NoteFunction0(m, fn)
      m1 == [m0 EXCEPT !.stack[Len(m.stack)].is_multi = is_multi]
  IN IF PCI_FUNC(top.devfn) # 0 /\ top.is_multi = 0 THEN NextDevfn(m)
     ELSE IF fn.hdr_ret # 0 THEN NextDevfn(m0)
     ELSE IF fn.vid_ret # 0 \/ EmptyVendor(fn.l) THEN NextDevfn(m1)
     ELSE ScanFunction(m1, fn)

\* pci_scan_bus(child_bus) returns.
PopScan(m) == [m EXCEPT !.stack = SubSeq(@, 1, Len(@) - 1)]

\* The rest of the bridge case after pci_scan_bus(child_bus) has returned.
ScanBridgeReturn(m) ==
  NextDevfn(pci_setup_device(
              pci_postsetup_bridge(PopScan(m), Top(m).bridge),
              Top(m).bridge, 2))

\* The order in which pci_register_bus_devices(bus) registers devices.
RECURSIVE RegisterBusDevices(_, _)
RECURSIVE RegisterChildren(_, _, _)
\* pci_register_bus_devices walking down the hierarchy before it activates
\* the devices of the bus.
RegisterBusDevices_childrenfirst(buses, bus) ==
  RegisterChildren(buses, buses[bus].children, 1) \o buses[bus].devices

RegisterBusDevices(buses, bus) ==
  buses[bus].devices \o RegisterChildren(buses, buses[bus].children, 1)

RegisterChildren(buses, children, i) ==
  IF i > Len(children) THEN << >>
  ELSE RegisterBusDevices(buses, children[i])
         \o RegisterChildren(buses, children, i + 1)

\* ------------------------------------------------------------------------
\* The hardware: what the slots of a bus can answer, and the controllers
\* ------------------------------------------------------------------------

\* Bound: how many devices a scan allocates.
MaxFunctions == 3

\* Bound: how many calls of pci_scan_bus are active at once.
MaxDepth == 2

\* The slots that can hold a function; every other slot is empty.
PopulatedSlots == {0, 8, 9}

\* A BAR: its value out of reset and what it reads back after the sizing
\* write.
Bar(orig, mask) == [orig |-> orig, mask |-> mask]

\* An unimplemented BAR.
NoBar == Bar({}, {})

\* The dwords of a capability list: the pointer ptr in the capability
\* pointer register ptrreg, and at every offset of ents a capability with
\* an id and a next pointer.
Caps(ptrreg, ptr, ents) ==
  [off \in {ptrreg} \cup DOMAIN ents |->
     IF off = ptrreg THEN Word(ptr)
     ELSE Word(ents[off].id + 256 * ents[off].next)]

\* A capability.
Cap(id, next) == [id |-> id, next |-> next]

\* The capability list of the functions the scanner meets: power
\* management (id 1) at 0x40, then MSI (id 5) at 0x50.
StandardCaps ==
  Caps(PCI_CAPABILITY_LIST, 64,
       [off \in {64, 80} |-> IF off = 64 THEN Cap(1, 80) ELSE Cap(5, 0)])

\* A function whose reads succeed.
Function(l, class_rev, hdr_type, bars, subsystem) ==
  [hdr_ret |-> 0, vid_ret |-> 0, l |-> l, command |-> {},
   status |-> PCI_STATUS_CAP_LIST,
   class_rev |-> class_rev, hdr_type |-> hdr_type, bars |-> bars,
   subsystem |-> subsystem, caps |-> StandardCaps]

\* An empty slot: every read returns all ones.
EmptySlot == Function(Ones(0, 31), Ones(0, 31), 255, << >>, Ones(0, 31))

\* A slot whose header-type read fails.
HeaderReadFails == [EmptySlot EXCEPT !.hdr_ret = -1]

\* A multi-function header whose vendor read fails.
VendorReadFails == [EmptySlot EXCEPT !.hdr_type = 128, !.vid_ret = -1]

\* 8086:100e, a network controller: 32 bytes of I/O, 8 KiB of memory, a
\* read-only BAR, and a 64 KiB prefetchable BAR.  The firmware left its
\* I/O and memory decoding enabled.
Nic ==
  [Function(Word(269385862), {25, 0, 1}, 0,
            << Bar({0}, Ones(5, 31) \cup {0}),
               Bar({}, Ones(13, 31)),
               Bar(Ones(8, 15), Ones(8, 15)),
               Bar({3}, Ones(16, 31) \cup {3}) >>,
            Word(72436))
     EXCEPT !.command = PCI_COMMAND_IO \cup PCI_COMMAND_MEMORY]

\* 1af4:1000, function 0 of a multi-function device: a 16-byte I/O BAR
\* with bit 2 set and a 64-bit prefetchable 1 MiB BAR in BAR2/BAR3.
Multi ==
  Function(Word(268442356), {24, 16, 0}, 128,
           << Bar({0, 2}, Ones(4, 31) \cup {0, 2}),
              NoBar,
              Bar({2, 3}, Ones(20, 31) \cup {2, 3}),
              Bar({}, Ones(0, 31)) >>,
           Word(72436))

\* A function with two 1 MiB memory BARs and a 2 GiB one, left by the
\* firmware with memory decoding and bus mastering enabled.
Big ==
  [Function(Word(689078406), {24, 16, 0}, 0,
            << Bar({}, Ones(20, 31)), Bar({}, Ones(20, 31)),
               Bar({}, {31}) >>,
            {})
     EXCEPT !.command = PCI_COMMAND_MEMORY \cup PCI_COMMAND_MASTER]

\* A PCI-PCI bridge without BARs.
Bridge ==
  Function(Word(605192326), {26, 25, 18}, 1, << >>, {})

\* A PCI-PCI bridge with a 256-byte I/O BAR0 and a 64-bit memory BAR1.
BridgeWithBars ==
  Function(Word(605257862), {26, 25, 18}, 1,
           << Bar({0}, Ones(8, 31) \cup {0}),
              Bar({2}, Ones(16, 31) \cup {2}) >>,
           {})

\* A CardBus bridge (header type 2).
CardBus ==
  Function(Word(605323398), {26, 25, 18, 17, 16}, 2, << >>, {})

\* A function with header type 0 and the class of a PCI-PCI bridge.
BridgeClassNormalHeader ==
  Function(Word(605388934), {26, 25, 18}, 0, << Bar({}, Ones(13, 31)) >>, {})

\* A slot of a board that answers 0 for an empty slot, and slots that
\* answer all ones for the vendor only or for the device only.
ZeroSlot == Function({}, {}, 0, << >>, {})

NoVendor == [EmptySlot EXCEPT !.l = Ones(0, 15)]

NoDeviceId == [EmptySlot EXCEPT !.l = Ones(16, 31)]

\* The answers that allocate no device.
NoFunction ==
  {EmptySlot, HeaderReadFails, VendorReadFails, ZeroSlot, NoVendor,
   NoDeviceId}

\* The bridges.
Bridges == {Bridge, BridgeWithBars}

\* The other functions.
Endpoints == {Nic, Multi, Big, CardBus, BridgeClassNormalHeader}

\* What the slot the scan is at can answer.
Answers(m) ==
  NoFunction
    \cup (IF Len(m.devs) < MaxFunctions THEN Endpoints ELSE {})
    \cup (IF Len(m.devs) < MaxFunctions /\ Len(m.stack) < MaxDepth
          THEN Bridges ELSE {})

\* A window of a controller.
Window(start, end) == [start |-> start, end |-> end]

\* The controllers: io, mem and mem_pref as their drivers fill them in.
Controllers ==
  { [io |-> Window({12}, Ones(0, 12)),
     mem |-> Window(Ones(28, 31), Ones(28, 31) \cup Ones(0, 19)),
     mem_pref |-> Window({}, {})],
    [io |-> Window({12}, Ones(0, 15)),
     mem |-> Window(Ones(29, 31), Ones(29, 31) \cup Ones(0, 27)),
     mem_pref |-> Window({32}, {32} \cup Ones(0, 23))] }

\* ------------------------------------------------------------------------
\* pci_register_controller as a state machine
\* ------------------------------------------------------------------------

\* The state the scanner works on.
Machine ==
  [ctrl |-> pci_ctrl, buses |-> pci_buses, devs |-> pci_devs,
   cfg |-> pci_cfg, stack |-> scan_stack]

\* The scan is at a slot that holds nothing.
AtEmptySlot(m) ==
  Top(m).devfn < 255 /\ Top(m).devfn \notin PopulatedSlots

\* At most n more iterations of the loop, as long as the scan is at a slot
\* that holds nothing.
RECURSIVE SkipEmptySlotTimes(_, _)
SkipEmptySlotTimes(m, n) ==
  IF n = 0 \/ ~AtEmptySlot(m) THEN m
  ELSE IF n = 1 THEN ScanSlot(m, EmptySlot)
  ELSE SkipEmptySlotTimes(SkipEmptySlotTimes(m, n \div 2), n - n \div 2)

\* The scan continues over the slots that hold nothing.
SkipEmptySlots(m) == SkipEmptySlotTimes(m, 255 - Top(m).devfn)

\* The state after the scanner has produced m.
Scanned(m) ==
  /\ pci_ctrl' = m.ctrl
  /\ pci_buses' = m.buses
  /\ pci_devs' = m.devs
  /\ pci_cfg' = m.cfg
  /\ scan_stack' = m.stack
  /\ attached' = [d \in DOMAIN m.devs |->
                    IF d \in DOMAIN attached THEN attached[d] ELSE {}]

InitScan ==
  /\ g_pci_device_list = << >>
  /\ g_pci_driver_list = << >>
  /\ pci_devs = << >>
  /\ attached = << >>
  /\ last = [op |-> "none", drv |-> NULL, dev |-> NULL, ret |-> 0,
             calls |-> << >>]
  /\ plan = [drivers |-> << >>, devices |-> << >>, probe |-> << >>]
  /\ alt = EmptyRegistry(pci_devs)
  /\ InitLock
  /\ InitController

\* pci_register_controller(ctrl) up to the first slot of the root bus.
pci_register_controller(ctrl) ==
  /\ pc = "idle"
  /\ windows' = ctrl
  /\ Scanned([ctrl |-> [io |-> ctrl.io, mem |-> ctrl.mem,
                        mem_pref |-> ctrl.mem_pref, bus |-> 1, busno |-> 1],
              buses |-> << pci_alloc_bus >>,
              devs |-> pci_devs,
              cfg |-> pci_cfg,
              stack |-> << [bus |-> 1, devfn |-> 0, is_multi |-> 0,
                            bridge |-> NULL, fn0_multi |-> FALSE] >>])
  /\ pc' = "scan"
  /\ UNCHANGED <<g_pci_device_list, g_pci_driver_list, last, order_vars,
                 lock_vars,
                 published, g_pci_root_buses>>

\* pci_scan_bus: the iteration for the slot the scan is at, and the
\* iterations for the empty slots after it.
pci_scan_bus(fn) ==
  /\ pc = "scan"
  /\ Top(Machine).devfn < 255
  /\ \E m \in {SkipEmptySlots(ScanSlot(Machine, fn))} : Scanned(m)
  /\ UNCHANGED <<g_pci_device_list, g_pci_driver_list, last, order_vars,
                 lock_vars,
                 windows, published, g_pci_root_buses, pc>>

\* pci_scan_bus returns: to the bridge case of the calling pci_scan_bus, or
\* to pci_register_controller.
pci_scan_bus_return ==
  /\ pc = "scan"
  /\ Top(Machine).devfn = 255
  /\ IF Top(Machine).bridge # NULL
     THEN /\ \E m \in {SkipEmptySlots(ScanBridgeReturn(Machine))} : Scanned(m)
          /\ pc' = "scan"
     ELSE /\ Scanned([Machine EXCEPT !.stack = << >>])
          /\ pc' = "register"
  /\ UNCHANGED <<g_pci_device_list, g_pci_driver_list, last, order_vars,
                 lock_vars,
                 windows, published, g_pci_root_buses>>

\* pci_register_bus_devices: the next call of pci_register_device.
pci_register_bus_devices ==
  /\ pc = "register"
  /\ published < Len(RegisterBusDevices(pci_buses, pci_ctrl.bus))
  /\ \E rets \in [Range(g_pci_driver_list) -> ProbeRets] :
       RegisterDeviceCall(
         RegisterBusDevices(pci_buses, pci_ctrl.bus)[published + 1], rets)
  /\ published' = published + 1
  /\ UNCHANGED <<order_vars, lock_vars, pci_ctrl, windows, pci_buses, pci_cfg,
                 scan_stack, g_pci_root_buses, pc>>

\* pci_register_controller adding the root bus to g_pci_root_buses before
\* pci_register_bus_devices has registered the last device.
pci_register_controller_return_early ==
  /\ pc = "register"
  /\ published < Len(RegisterBusDevices(pci_buses, pci_ctrl.bus))
  /\ g_pci_root_buses' = Append(g_pci_root_buses, pci_ctrl.bus)
  /\ pc' = "done"
  /\ UNCHANGED <<registry_vars, order_vars, lock_vars, pci_ctrl, windows,
                 pci_buses, pci_cfg, scan_stack, published>>

\* pci_register_controller after pci_register_bus_devices: the root bus
\* joins g_pci_root_buses under g_pci_lock, and 0 is returned.
pci_register_controller_return ==
  /\ pc = "register"
  /\ published = Len(RegisterBusDevices(pci_buses, pci_ctrl.bus))
  /\ g_pci_root_buses' = Append(g_pci_root_buses, pci_ctrl.bus)
  /\ pc' = "done"
  /\ UNCHANGED <<registry_vars, order_vars, lock_vars, pci_ctrl, windows,
                 pci_buses,
                 pci_cfg, scan_stack, published>>

\* The drivers that register while the controller publishes its devices.
ScanDrivers == {1}

\* pci_register_driver(drv) from another task, between two of the calls of
\* pci_register_device that pci_register_bus_devices makes (each takes and
\* releases g_pci_lock).
RegisterDriverWhilePublishing(drv) ==
  /\ pc = "register"
  /\ pci_register_driver(drv)

\* pci_find_capability(dev, cap)
pci_find_capability(d, cap) ==
  /\ \E r \in {FindCapability(pci_cfg[d], pci_devs[d], cap)} :
       last' = [op |-> "pci_find_capability", dev |-> d, cap |-> cap,
                pos |-> 0, ret |-> r.ret, reads |-> r.reads,
                calls |-> << >>]
  /\ UNCHANGED <<g_pci_device_list, g_pci_driver_list, pci_devs, attached,
                 order_vars, lock_vars, scan_vars>>

\* A driver looks for the MSI capability (id 5) of a device that
\* pci_register_controller has published.
FindCapabilityOfPublished(d) ==
  /\ pc = "done"
  /\ pci_find_capability(d, 5)

NextScan ==
  \/ \E ctrl \in Controllers : pci_register_controller(ctrl)
  \/ \E fn \in Answers(Machine) : pci_scan_bus(fn)
  \/ pci_scan_bus_return
  \/ pci_register_bus_devices
  \/ pci_register_controller_return
  \/ \E drv \in ScanDrivers : RegisterDriverWhilePublishing(drv)
  \/ \E d \in Range(g_pci_device_list) : FindCapabilityOfPublished(d)

SpecScan == InitScan /\ [][NextScan]_vars

\* ------------------------------------------------------------------------
\* The configuration accessors, called on one function
\* ------------------------------------------------------------------------

\* The offsets the accessors are called with, and the offsets written.
AccessOffsets == 0..15

WriteOffsets == 4..7

\* What ops->read and ops->write return: 0 or -EIO.
BackendRets == {0, -5}

\* The value written.
WriteValues == {{0, 1, 9, 18, 27}}

\* One device on the root bus, answered by the function fn.
InitFunction(fn) ==
  /\ g_pci_device_list = << >>
  /\ g_pci_driver_list = << >>
  /\ pci_devs = << [pci_alloc_device EXCEPT !.bus = 1,
                                            !.hdr_type = fn.hdr_type] >>
  /\ attached = << {} >>
  /\ last = [op |-> "none", drv |-> NULL, dev |-> NULL, ret |-> 0,
             calls |-> << >>]
  /\ plan = [drivers |-> << >>, devices |-> << >>, probe |-> << >>]
  /\ alt = EmptyRegistry(pci_devs)
  /\ InitLock
  /\ pci_ctrl = NULL
  /\ windows = NULL
  /\ pci_buses = << pci_alloc_bus >>
  /\ pci_cfg = << Unwritten(fn) >>
  /\ scan_stack = << >>
  /\ published = 0
  /\ g_pci_root_buses = << >>
  /\ pc = "idle"

InitAccess == InitFunction(Nic)

\* pci_bus_read_config_{byte,word,dword}(bus, devfn, where, &value) on the
\* function of device d, with ops->read returning bret.
pci_bus_read_config(d, size, where, bret) ==
  /\ \E r \in {PCI_BUS_READ_CONFIG(pci_cfg[d], d, where, size, bret)} :
       last' = [op |-> "pci_bus_read_config", dev |-> d, where |-> where,
                size |-> size, bret |-> bret, value |-> r.value,
                ret |-> r.ret, calls |-> r.calls]
  /\ UNCHANGED <<g_pci_device_list, g_pci_driver_list, pci_devs, attached,
                 order_vars, lock_vars, scan_vars>>

\* pci_bus_write_config_{byte,word,dword}(bus, devfn, where, value), with
\* ops->write returning bret.
pci_bus_write_config(d, size, where, value, bret) ==
  /\ \E r \in {PCI_BUS_WRITE_CONFIG(pci_cfg[d], d, where, size, value,
                                    bret)} :
       /\ pci_cfg' = [pci_cfg EXCEPT ![d] = r.cfg]
       /\ last' = [op |-> "pci_bus_write_config", dev |-> d,
                   where |-> where, size |-> size, bret |-> bret,
                   value |-> value, ret |-> r.ret, calls |-> r.calls]
  /\ UNCHANGED <<g_pci_device_list, g_pci_driver_list, pci_devs, attached,
                 order_vars, lock_vars, pci_ctrl, windows, pci_buses,
                 scan_stack,
                 published, g_pci_root_buses, pc>>

NextAccess ==
  \/ \E d \in DOMAIN pci_devs, size \in {1, 2, 4}, where \in AccessOffsets,
        bret \in BackendRets :
       pci_bus_read_config(d, size, where, bret)
  \/ \E d \in DOMAIN pci_devs, size \in {1, 2, 4}, where \in WriteOffsets,
        value \in WriteValues, bret \in BackendRets :
       pci_bus_write_config(d, size, where, value, bret)

SpecAccess == InitAccess /\ [][NextAccess]_vars

\* ------------------------------------------------------------------------
\* The capability walk over capability lists of every shape
\* ------------------------------------------------------------------------

\* The capability ids asked for: power management and MSI.
CapIds == {1, 5}

\* The two offsets that hold capabilities.
CapOffsets == {64, 68}

\* The capabilities: an id (0xff ends the list) and a next pointer that
\* ends the list (0), points at 0x40 or points into the capability at 0x44.
CapEntries == {Cap(id, next) : id \in {1, 5, 255}, next \in {0, 64, 71}}

\* What the capability pointer register holds: 0x40, a pointer into the
\* capability at 0x44, or a pointer below 0x40.
CapPointers == {64, 69, 48}

\* The header type of the device and the STATUS register.
CapHeaders ==
  {[hdr_type |-> PCI_HEADER_TYPE_NORMAL, status |-> PCI_STATUS_CAP_LIST],
   [hdr_type |-> PCI_HEADER_TYPE_BRIDGE, status |-> PCI_STATUS_CAP_LIST],
   [hdr_type |-> PCI_HEADER_TYPE_CARDBUS, status |-> PCI_STATUS_CAP_LIST],
   [hdr_type |-> PCI_HEADER_TYPE_NORMAL, status |-> {}]}

\* The capability pointer register of a header type.
CapPointerRegister(hdr_type) ==
  IF hdr_type = PCI_HEADER_TYPE_CARDBUS THEN PCI_CB_CAPABILITY_LIST
  ELSE PCI_CAPABILITY_LIST

\* A function without BARs and with a capability list.
CapFunction(h, ptr, ents) ==
  [Nic EXCEPT !.hdr_type = h.hdr_type,
              !.bars = << >>,
              !.status = h.status,
              !.caps = Caps(CapPointerRegister(h.hdr_type), ptr, ents)]

InitCaps ==
  \E h \in CapHeaders, ptr \in CapPointers, ents \in [CapOffsets -> CapEntries] :
    InitFunction(CapFunction(h, ptr, ents))

\* pci_find_next_capability(dev, pos, cap)
pci_find_next_capability(d, pos, cap) ==
  /\ \E r \in {FindNextCapability(pci_cfg[d], pos, cap)} :
       last' = [op |-> "pci_find_next_capability", dev |-> d, cap |-> cap,
                pos |-> pos, ret |-> r.ret, reads |-> r.reads,
                calls |-> << >>]
  /\ UNCHANGED <<g_pci_device_list, g_pci_driver_list, pci_devs, attached,
                 order_vars, lock_vars, scan_vars>>

NextCaps ==
  \/ \E d \in DOMAIN pci_devs, cap \in CapIds : pci_find_capability(d, cap)
  \/ \E d \in DOMAIN pci_devs, pos \in CapOffsets, cap \in CapIds :
       pci_find_next_capability(d, pos, cap)

SpecCaps == InitCaps /\ [][NextCaps]_vars

\* ------------------------------------------------------------------------
\* Calls with invalid arguments: pci_register_driver with a driver that
\* fails its DEBUGASSERT, and pci_register_controller(NULL)
\* ------------------------------------------------------------------------

\* The arguments that fail
\*   DEBUGASSERT(drv != NULL && drv->probe != NULL && drv->id_table != NULL);
\* a null pointer, a driver without probe (its id table is that of driver
\* 3) and a driver without id table.
IncompleteDrivers ==
  {[drv |-> NULL, has_probe |-> FALSE, has_id_table |-> FALSE,
    ids |-> << >>],
   [drv |-> NumDrivers + 1, has_probe |-> FALSE, has_id_table |-> TRUE,
    ids |-> id_table(3)],
   [drv |-> NumDrivers + 2, has_probe |-> TRUE, has_id_table |-> FALSE,
    ids |-> << >>]}

\* The builds: DEBUGASSERT compiled in (CONFIG_DEBUG_ASSERTIONS) or out.
Builds == {"assertions", "no assertions"}

\* for (id = drv->id_table; id->vendor; id++) if (pci_match_one_device(...))
\* reaches a matching entry.
SomeIdMatches(ids, dev) ==
  \E i \in DOMAIN ids :
    /\ \A j \in 1..i : ids[j].vendor # 0
    /\ pci_match_one_device(ids[i], dev)

\* The device loop of pci_register_driver for an incomplete driver, from
\* position k on: "returns" when the loop ends without using a null
\* pointer, "undefined" when it reads id->vendor through a null id_table
\* or calls a null probe.
RECURSIVE IncompleteDriverLoop(_, _, _, _)
IncompleteDriverLoop(devlist, k, devs, arg) ==
  IF k > Len(devlist) THEN "returns"
  ELSE IF devs[devlist[k]].drv # NULL
  THEN IncompleteDriverLoop(devlist, k + 1, devs, arg)
  ELSE IF ~arg.has_id_table THEN "undefined"
  ELSE IF SomeIdMatches(arg.ids, devs[devlist[k]]) THEN "undefined"
  ELSE IncompleteDriverLoop(devlist, k + 1, devs, arg)

\* What the build can do once the behaviour is undefined: the access
\* faults, or it goes unnoticed and the function runs to its return.
AfterUndefined(drvlist) ==
  {[kind |-> "fault", ret |-> 0, driver_list |-> drvlist],
   [kind |-> "returned", ret |-> 0, driver_list |-> drvlist]}

\* pci_register_driver(drv) with an incomplete driver: the outcomes.  With
\* assertions the DEBUGASSERT fails and the function does not return.
\* Without them list_add_tail(&g_pci_driver_list, &drv->node) appends the
\* driver (undefined for a null drv), the device loop runs, and ret, the
\* result of nxmutex_lock, is returned.
RegisterIncompleteDriver(devlist, drvlist, devs, arg, build) ==
  IF build = "assertions"
  THEN {[kind |-> "panic", ret |-> 0, driver_list |-> drvlist]}
  ELSE IF arg.drv = NULL THEN AfterUndefined(Append(drvlist, arg.drv))
  ELSE IF IncompleteDriverLoop(devlist, 1, devs, arg) = "undefined"
  THEN AfterUndefined(Append(drvlist, arg.drv))
  ELSE {[kind |-> "returned", ret |-> 0,
         driver_list |-> Append(drvlist, arg.drv)]}

\* The last call and how it ended: "returned", "panic" or "fault".
Ended(op, drv, r) ==
  [op |-> op, drv |-> drv, dev |-> NULL, ret |-> r.ret, calls |-> << >>,
   outcome |-> r.kind]

\* pci_register_driver(drv) with an incomplete driver.
pci_register_incomplete_driver(arg, build) ==
  /\ arg.drv \notin Range(g_pci_driver_list)
  /\ \E r \in RegisterIncompleteDriver(g_pci_device_list, g_pci_driver_list,
                                       pci_devs, arg, build) :
       /\ g_pci_driver_list' = r.driver_list
       /\ last' = Ended("pci_register_driver", arg.drv, r)
       /\ pc' = IF r.kind = "returned" THEN pc ELSE r.kind
  /\ UNCHANGED <<g_pci_device_list, pci_devs, attached, order_vars, lock_vars,
                 pci_ctrl, windows, pci_buses, pci_cfg, scan_stack,
                 published, g_pci_root_buses>>

\* pci_register_controller(NULL): if (ctrl == NULL) return -EINVAL;
pci_register_null_controller ==
  /\ last' = Ended("pci_register_controller", NULL,
                   [ret |-> -EINVAL, kind |-> "returned"])
  /\ UNCHANGED <<g_pci_device_list, g_pci_driver_list, pci_devs, attached,
                 order_vars, lock_vars, scan_vars>>

\* The drivers of the list that are incomplete.
IncompleteRegistered ==
  {arg \in IncompleteDrivers : arg.drv \in Range(g_pci_driver_list)}

\* The registry calls, with valid and with invalid arguments, until the
\* system has stopped or an incomplete driver is in the driver list.
NextArgs ==
  /\ pc = "idle"
  /\ IncompleteRegistered = {}
  /\ \/ Next
     \/ \E arg \in IncompleteDrivers, build \in Builds :
          pci_register_incomplete_driver(arg, build)
     \/ pci_register_null_controller

SpecArgs == Init /\ [][NextArgs]_vars

\* ========================================================================
\* Claims
\* ========================================================================

\* The callbacks of the last registry call that satisfy P.
CallsWhere(P(_)) == {i \in DOMAIN last.calls : P(last.calls[i])}

\* The id-table entries the registration loops may use: those before the
\* vendor == 0 sentinel.
RECURSIVE IdsBeforeSentinel(_, _)
IdsBeforeSentinel(tbl, i) ==
  IF tbl[i].vendor = 0 THEN {} ELSE {tbl[i]} \cup IdsBeforeSentinel(tbl, i + 1)

\* C1 -- registration commutativity: once all drivers and all devices are
\* registered, drivers first or devices first, every device is bound to the
\* same driver in both registries.
C1_RegistrationCommutes ==
  OrderDone => \A d \in Devices : pci_devs[d].drv = alt.devs[d].drv

\* C2 -- a device is bound to at most one driver: at every point at most one
\* driver has a successful probe(dev) not followed by remove(dev), and
\* pci_register_device makes no probe call after the first successful one,
\* whose driver the device is then bound to.
C2_AtMostOneDriver ==
  /\ \A d \in DOMAIN attached : Cardinality(attached[d]) <= 1
  /\ last.op = "pci_register_device" =>
       \A i \in DOMAIN last.calls :
         last.calls[i].ret >= 0 =>
           /\ i = Len(last.calls)
           /\ pci_devs[last.dev].drv = last.calls[i].drv

\* C3 -- pci_register_driver probes a device at most once per registration,
\* never probes a device that is already bound, and binds the device to the
\* driver iff that probe returned >= 0.
C3_DriverProbesOncePerDevice ==
  last.op = "pci_register_driver" =>
    /\ \A i \in DOMAIN last.calls : last.calls[i].bound = NULL
    /\ \A d \in DOMAIN pci_devs :
         LET probes == CallsWhere(LAMBDA c : c.cb = "probe" /\ c.dev = d) IN
         /\ Cardinality(probes) <= 1
         /\ (pci_devs[d].drv = last.drv) <=>
              (\E i \in probes : last.calls[i].ret >= 0)

\* The match predicate as specified: every id field is the wildcard or
\* equal, and the classes agree on the bits of class_mask.
MatchesAsSpecified(id, dev) ==
  /\ (id.vendor = PCI_ANY_ID \/ id.vendor = dev.vendor)
  /\ (id.device = PCI_ANY_ID \/ id.device = dev.device)
  /\ (id.subvendor = PCI_ANY_ID \/ id.subvendor = dev.subsystem_vendor)
  /\ (id.subdevice = PCI_ANY_ID \/ id.subdevice = dev.subsystem_device)
  /\ BitAnd(BitXor(id.class, dev.class), id.class_mask) = 0

\* C4 -- matcher correctness: for every id of a registered driver and every
\* registered device, pci_match_one_device is true iff every id field is
\* the wildcard or equal and ((id.class ^ dev.class) & id.class_mask) == 0.
C4_MatcherCorrect ==
  \A drv \in Range(g_pci_driver_list), d \in Range(g_pci_device_list) :
    \A id \in IdsBeforeSentinel(id_table(drv), 1) :
      pci_match_one_device(id, pci_devs[d]) <=> MatchesAsSpecified(id, pci_devs[d])

\* C5 -- registry invariant: every device of the device list is unbound or
\* bound to a driver of the driver list.
C5_BoundToRegisteredDriver ==
  \A d \in Range(g_pci_device_list) :
    pci_devs[d].drv = NULL \/ pci_devs[d].drv \in Range(g_pci_driver_list)

\* C5 witness: a driver that had devices bound to it has been unregistered.
C5_Witness ==
  /\ last.op = "pci_unregister_driver"
  /\ last.calls # << >>
  /\ g_pci_device_list # << >>

\* C6 -- pci_unregister_driver(drv) calls drv.remove(dev) exactly once for
\* every device bound to drv and makes no other callback; those devices end
\* unbound; drv leaves the driver list, whose other entries keep their
\* order; every other device keeps its binding; the device list is
\* unchanged.
C6_UnregisterDriverEffect ==
  [][last'.op = "pci_unregister_driver" =>
       LET drv == last'.drv IN
       /\ \A d \in DOMAIN pci_devs :
            Cardinality({i \in DOMAIN last'.calls : last'.calls[i].dev = d}) =
              IF pci_devs[d].drv = drv THEN 1 ELSE 0
       /\ \A i \in DOMAIN last'.calls :
            last'.calls[i] = RemoveCall(drv, last'.calls[i].dev, drv)
       /\ \A d \in DOMAIN pci_devs :
            pci_devs'[d].drv = IF pci_devs[d].drv = drv THEN NULL
                               ELSE pci_devs[d].drv
       /\ g_pci_driver_list' =
            SelectSeq(g_pci_driver_list, LAMBDA x : x # drv)
       /\ drv \in Range(g_pci_driver_list)
       /\ g_pci_device_list' = g_pci_device_list]_vars

\* C6 witness: a driver with a bound device was unregistered while another
\* device stayed bound to another driver.
C6_Witness ==
  /\ last.op = "pci_unregister_driver"
  /\ last.calls # << >>
  /\ \E d \in Range(g_pci_device_list) : pci_devs[d].drv \notin {NULL, last.drv}

\* What pci_unregister_device(dev) leaves behind, whatever it called: dev is
\* unbound and off the device list, whose other entries keep their order;
\* the driver list and every other device's binding are unchanged.
UnregisterDeviceFrame ==
  LET d == last'.dev IN
  /\ pci_devs'[d].drv = NULL
  /\ d \in Range(g_pci_device_list)
  /\ g_pci_device_list' = SelectSeq(g_pci_device_list, LAMBDA x : x # d)
  /\ g_pci_driver_list' = g_pci_driver_list
  /\ \A e \in DOMAIN pci_devs \ {d} : pci_devs'[e] = pci_devs[e]

\* C7 as claimed -- pci_unregister_device(dev): a bound device gets exactly
\* one remove(dev) from its driver, made while it is still bound; an unbound
\* device gets no callback; the rest of the registry is untouched.
C7_RemoveWheneverBound ==
  [][last'.op = "pci_unregister_device" =>
       LET d == last'.dev
           drv == pci_devs[d].drv
       IN /\ last'.calls = IF drv # NULL THEN << RemoveCall(drv, d, drv) >>
                           ELSE << >>
          /\ UnregisterDeviceFrame]_vars

\* C7 as amended -- pci_unregister_device(dev): a device bound to a driver
\* that has a remove callback gets exactly one remove(dev), made while it is
\* still bound; an unbound device, or one whose driver has no remove
\* callback, gets no callback; the rest of the registry is untouched.
C7_RemoveWhenDriverHasRemove ==
  [][last'.op = "pci_unregister_device" =>
       LET d == last'.dev
           drv == pci_devs[d].drv
       IN /\ last'.calls = IF drv # NULL /\ has_remove(drv)
                           THEN << RemoveCall(drv, d, drv) >>
                           ELSE << >>
          /\ UnregisterDeviceFrame]_vars

\* C7 witness: a bound device was unregistered and its driver's remove was
\* called, while another device stayed registered and bound.
C7_Witness ==
  /\ last.op = "pci_unregister_device"
  /\ Len(last.calls) = 1
  /\ \E e \in Range(g_pci_device_list) : pci_devs[e].drv # NULL

\* C8 -- a failing probe does not fail the registration: the call returns
\* success, the driver (resp. device) is on its list, and a device that a
\* driver probed only with negative results is not bound to that driver.
C8_ProbeFailureIsNotAnError ==
  last.op \in {"pci_register_driver", "pci_register_device"} =>
    /\ last.ret = 0
    /\ last.op = "pci_register_driver" =>
         last.drv \in Range(g_pci_driver_list)
    /\ last.op = "pci_register_device" =>
         last.dev \in Range(g_pci_device_list)
    /\ \A i \in DOMAIN last.calls :
         LET c == last.calls[i] IN
         (\A j \in DOMAIN last.calls :
            (last.calls[j].drv = c.drv /\ last.calls[j].dev = c.dev)
              => last.calls[j].ret < 0)
           => pci_devs[c.dev].drv # c.drv

\* C8 witness: a registration in which a probe failed and left its device
\* unbound.
C8_Witness ==
  /\ last.op \in {"pci_register_driver", "pci_register_device"}
  /\ \E i \in DOMAIN last.calls :
       /\ last.calls[i].ret < 0
       /\ pci_devs[last.calls[i].dev].drv = NULL

\* The populated resources of the scanned devices: <<device, BAR index>>.
PopulatedResources ==
  {r \in (DOMAIN pci_devs) \X (0..(PCI_NUM_RESOURCES - 1)) :
     pci_devs[r[1]].resource[r[2]].flags # {}}

\* The resource record of a populated resource.
ResourceOf(r) == pci_devs[r[1]].resource[r[2]]

\* The controller window a populated resource was allocated from.
WindowOf(r) ==
  IF ResourceOf(r).flags \cap PCI_RESOURCE_IO # {} THEN "io"
  ELSE IF ResourceOf(r).flags \cap PCI_RESOURCE_PREFETCH # {} THEN "mem_pref"
  ELSE "mem"

\* Unsigned a <= b.
LessEq(a, b) == a = b \/ Less(a, b)

\* The device is on a bus behind a bridge.
BehindBridge(d) == pci_buses[pci_devs[d].bus].parent_bus # NULL

\* C9: at every point of a scan and after it, the ranges [start, end] of
\* the populated resources allocated from the same controller window are
\* pairwise disjoint, and each lies within [start, end] of that window as
\* it was passed to pci_register_controller.
C9_DisjointWindows ==
  \A r \in PopulatedResources :
    /\ LessEq(windows[WindowOf(r)].start, ResourceOf(r).start)
    /\ LessEq(ResourceOf(r).start, ResourceOf(r).end)
    /\ LessEq(ResourceOf(r).end, windows[WindowOf(r)].end)
    /\ \A q \in PopulatedResources :
         q # r /\ WindowOf(q) = WindowOf(r) =>
           \/ Less(ResourceOf(r).end, ResourceOf(q).start)
           \/ Less(ResourceOf(q).end, ResourceOf(r).start)

\* A finished scan of a bridge and endpoints in which two devices, one of
\* them behind the bridge, hold resources from the same window.
C9_Witness ==
  /\ pc = "done"
  /\ \E r, q \in PopulatedResources :
       /\ r[1] # q[1]
       /\ WindowOf(r) = WindowOf(q)
       /\ BehindBridge(r[1])
       /\ ~BehindBridge(q[1])

\* C10: the size end - start + 1 of every populated resource is a power
\* of two, and its start is a multiple of its size.
C10_Alignment ==
  \A r \in PopulatedResources :
    LET size == Add(Sub(ResourceOf(r).end, ResourceOf(r).start, UPTR),
                    {0}, UPTR)
    IN /\ Cardinality(size) = 1
       /\ \A b \in ResourceOf(r).start : \A k \in size : b >= k

\* A finished scan in which a device behind a bridge holds an I/O resource
\* and a memory resource, both allocated after the bridge moved the cursors
\* of the windows past resources of a device on the root bus.
C10_Witness ==
  /\ pc = "done"
  /\ \E d \in DOMAIN pci_devs :
       /\ BehindBridge(d)
       /\ \E r, q \in PopulatedResources :
            /\ r[1] = d /\ q[1] = d
            /\ WindowOf(r) = "io" /\ WindowOf(q) = "mem"
            /\ Less(windows.io.start, ResourceOf(r).start)
            /\ Less(windows.mem.start, ResourceOf(q).start)
            /\ ResourceOf(r).start \cap Ones(0, 11) = {}
            /\ ResourceOf(q).start \cap Ones(0, 19) = {}

\* The buses at and below a bus.
RECURSIVE Descendants(_)
Descendants(b) ==
  {b} \cup UNION {Descendants(pci_buses[b].children[i]) :
                    i \in DOMAIN pci_buses[b].children}

\* The scanned bridges: the devices with a bus behind them.
ScannedBridges == {d \in DOMAIN pci_devs : pci_devs[d].subordinate # NULL}

\* The byte a bridge holds in one of its bus number registers.
BusRegister(d, where) == Nat2(Stored(pci_cfg[d], where, 1))

\* Child bus numbers are handed out from ctrl->busno, which starts at 1, in
\* the order the bridges are discovered (the root bus has number 0).
NumberedInDiscoveryOrder ==
  /\ \A b \in DOMAIN pci_buses : pci_buses[b].number = b - 1
  /\ \A d, e \in ScannedBridges :
       d < e => pci_buses[pci_devs[d].subordinate].number
                  < pci_buses[pci_devs[e].subordinate].number

\* The bus number registers of bridge d are as specified.
BusRegistersAsSpecified(d) ==
  /\ BusRegister(d, PCI_PRIMARY_BUS) = pci_buses[pci_devs[d].bus].number
  /\ BusRegister(d, PCI_SECONDARY_BUS) =
       pci_buses[pci_devs[d].subordinate].number
  /\ BusRegister(d, PCI_SUBORDINATE_BUS) =
       Max({pci_buses[b].number : b \in Descendants(pci_devs[d].subordinate)})
  /\ BusRegister(d, PCI_SUBORDINATE_BUS) >= BusRegister(d, PCI_SECONDARY_BUS)
  /\ BusRegister(d, PCI_SECONDARY_BUS) >= BusRegister(d, PCI_PRIMARY_BUS)

\* C11 -- bus numbering: after pci_register_controller every bridge holds
\* in PRIMARY_BUS the number of the bus it sits on, in SECONDARY_BUS the
\* number of its child bus and in SUBORDINATE_BUS the highest bus number at
\* or below its child bus, so subordinate >= secondary >= primary; child
\* bus numbers are handed out from ctrl->busno in discovery order.
C11_BusNumbering ==
  pc = "done" =>
    /\ NumberedInDiscoveryOrder
    /\ \A d \in ScannedBridges : BusRegistersAsSpecified(d)

\* The same for the bridges whose second BAR was not assigned as a 64-bit
\* BAR: what C11 fails on is only the write of the upper half of such a
\* BAR, which lands on the bus number registers.
BusNumberingUnlessBar1Is64Bit ==
  pc = "done" =>
    /\ NumberedInDiscoveryOrder
    /\ \A d \in ScannedBridges :
         pci_devs[d].resource[1].flags \cap PCI_RESOURCE_MEM_64 = {}
           => BusRegistersAsSpecified(d)

\* The innermost active call of pci_scan_bus is at a function other than
\* function 0 of its device.
AtLaterFunction ==
  /\ pc = "scan"
  /\ scan_stack[Len(scan_stack)].devfn < 255
  /\ PCI_FUNC(scan_stack[Len(scan_stack)].devfn) # 0

\* C12 -- multifunction gating: when function 0 of a device did not answer
\* a header type with bit 0x80 (its header lacks the bit, or reading it
\* failed), the iterations for functions 1..7 of that device are skipped
\* without any config read (is_multi is 0 at the gate) and allocate no
\* device record.
C12_MultifunctionGating ==
  [][(AtLaterFunction /\ ~scan_stack[Len(scan_stack)].fn0_multi) =>
       /\ scan_stack[Len(scan_stack)].is_multi = 0
       /\ Len(pci_devs') = Len(pci_devs)]_vars

\* The position of a device in the global device list.
PublishedAt(d) == CHOOSE i \in DOMAIN g_pci_device_list : g_pci_device_list[i] = d

\* The devices that were appended to the device list of their bus.
OnBusList == UNION {Range(pci_buses[b].devices) : b \in DOMAIN pci_buses}

\* C13 as claimed -- publication order: the devices are passed to
\* pci_register_device in the order the scanner discovered (allocated)
\* them, a device behind a bridge before the later devfns of the bridge's
\* bus.
C13_PublicationInDiscoveryOrder ==
  \A i, j \in DOMAIN g_pci_device_list :
    i < j => g_pci_device_list[i] < g_pci_device_list[j]

\* C13 as amended -- publication order: the devices are passed to
\* pci_register_device bus by bus, the buses in the order they were
\* discovered and the devices of one bus by ascending devfn; every probe a
\* publication makes is of the device being published; when
\* pci_register_controller returns, every device on the device list of a
\* bus has been published.
C13_PublicationBusByBus ==
  /\ \A i, j \in DOMAIN g_pci_device_list :
       i < j =>
         LET a == pci_devs[g_pci_device_list[i]]
             b == pci_devs[g_pci_device_list[j]]
         IN \/ pci_buses[a.bus].number < pci_buses[b.bus].number
            \/ a.bus = b.bus /\ a.devfn < b.devfn
  /\ last.op = "pci_register_device" =>
       /\ last.dev = g_pci_device_list[Len(g_pci_device_list)]
       /\ \A i \in DOMAIN last.calls : last.calls[i].dev = last.dev
  /\ pc = "done" => Range(g_pci_device_list) = OnBusList

\* C13 witness: a finished registration that published a bridge, a device
\* behind it and a device at a later devfn of the bridge's bus, a driver
\* having probed a device during the publication.
C13_Witness ==
  /\ pc = "done"
  /\ g_pci_driver_list # << >>
  /\ \E d, e \in Range(g_pci_device_list) :
       /\ BehindBridge(d) /\ ~BehindBridge(e)
       /\ d < e
       /\ PublishedAt(e) < PublishedAt(d)
       /\ pci_devs[e].drv # NULL

\* The scanned devices that pci_scan_bus passed to pci_setup_device: a
\* normal header whose class is not that of a PCI-PCI bridge, or a bridge
\* header.
PassedToSetup(d) ==
  \/ /\ pci_devs[d].hdr_type % 128 = PCI_HEADER_TYPE_NORMAL
     /\ pci_devs[d].class \div 256 # PCI_CLASS_BRIDGE_PCI
  \/ pci_devs[d].hdr_type % 128 = PCI_HEADER_TYPE_BRIDGE

\* C14 -- a BAR that does not fit in its window leaves the device in
\* place: when pci_register_controller has returned, every device that was
\* passed to pci_setup_device, whether or not all of its BARs fitted, is on
\* the device list of its bus and on the global device list (where drivers
\* find it).
C14_UnfitBarKeepsDevice ==
  pc = "done" =>
    \A d \in DOMAIN pci_devs :
      PassedToSetup(d) =>
        /\ d \in Range(pci_buses[pci_devs[d].bus].devices)
        /\ d \in Range(g_pci_device_list)

\* A call of a configuration accessor was the last call.
AccessorCalled ==
  last.op \in {"pci_bus_read_config", "pci_bus_write_config"}

\* The one call of the backend the last accessor call has to make.
ExpectedBackendCall ==
  [cb |-> IF last.op = "pci_bus_read_config" THEN "read" ELSE "write",
   dev |-> last.dev, where |-> last.where, size |-> last.size]

\* C15: a configuration read or write of width w at offset where returns
\* -EINVAL without calling the backend exactly when where mod w # 0, and
\* a misaligned read yields the value 0; otherwise the backend is called
\* exactly once with the same device, offset and width, and what it
\* returns is returned unchanged.
C15_ConfigAccessors ==
  AccessorCalled =>
    IF last.where % last.size # 0
    THEN /\ last.ret = -EINVAL
         /\ last.calls = << >>
         /\ last.op = "pci_bus_read_config" => last.value = {}
    ELSE /\ last.calls = << ExpectedBackendCall >>
         /\ last.ret = last.bret

\* A dword read at an offset that is even but not a multiple of 4 was
\* refused, after a write had reached the backend.
C15_Witness ==
  /\ last.op = "pci_bus_read_config"
  /\ last.size = 4
  /\ last.where % 4 = 2
  /\ last.ret = -EINVAL
  /\ last.value = {}
  /\ last.calls = << >>
  /\ pci_cfg[last.dev].written # << >>

\* The pointer a capability list continues with after the pointer p: the
\* next pointer of the capability that p points into, or 0 when p ends
\* the list.
NextCapPointer(c, p) ==
  IF p < 64 THEN 0 ELSE Nat2(Stored(c, 4 * (p \div 4) + 1, 1))

\* The first n + Len(chain) pointers of the capability list that chain
\* begins.
RECURSIVE CapChain(_, _, _)
CapChain(c, chain, n) ==
  IF n = 0 \/ Len(chain) = 0 THEN chain
  ELSE CapChain(c, Append(chain, NextCapPointer(c, chain[Len(chain)])),
                n - 1)

\* The id of the capability that the pointer p points into.
CapIdAt(c, p) == Nat2(Stored(c, 4 * (p \div 4), 1))

\* The least element of a nonempty set of numbers.
Least(S) == CHOOSE x \in S : \A y \in S : x <= y

\* Along the pointers chain: the offset of the first capability with id
\* cap, if it comes before the list ends (Len(chain) + 1 stands for no
\* end and for no such capability), and 0 otherwise.
FirstCapability(c, chain, cap, end, hit) ==
  IF hit < end THEN 4 * (chain[hit] \div 4) ELSE 0

ChainEnd(c, chain) ==
  Least({k \in 1..Len(chain) :
           chain[k] < 64 \/ CapIdAt(c, chain[k]) = 255}
        \cup {Len(chain) + 1})

ChainHit(c, chain, cap) ==
  Least({k \in 1..Len(chain) : chain[k] >= 64 /\ CapIdAt(c, chain[k]) = cap}
        \cup {Len(chain) + 1})

\* What a walk of at most 48 capabilities from the pointer stored at
\* ptrreg finds for the id cap.
ExpectedCapChain(c, chain, cap) ==
  FirstCapability(c, chain, cap, ChainEnd(c, chain), ChainHit(c, chain, cap))

ExpectedCap(c, ptrreg, cap) ==
  ExpectedCapChain(c, CapChain(c, << Nat2(Stored(c, ptrreg, 1)) >>, 47), cap)

\* The register the last capability search reads its first pointer from:
\* the capability pointer register of the function's header layout (0
\* when STATUS has CAP_LIST clear), or the next pointer of the capability
\* at pos.
WalkStart ==
  IF last.op = "pci_find_next_capability" THEN last.pos + 1
  ELSE IF pci_cfg[last.dev].fn.status \cap PCI_STATUS_CAP_LIST = {} THEN 0
  ELSE CapPointerRegister(pci_cfg[last.dev].fn.hdr_type % 128)

CapabilitySearched ==
  last.op \in {"pci_find_capability", "pci_find_next_capability"}

\* C16: pci_find_capability and pci_find_next_capability return after
\* reading at most 48 capabilities, whatever the capability list holds
\* (circular lists included); they return the 4-aligned offset of the
\* first capability along the list whose id is cap, and 0 when the list
\* reaches id 0xff or a pointer below 0x40 first or when 48 capabilities
\* have been read.
C16_CapabilityWalk ==
  CapabilitySearched =>
    /\ last.reads <= 48
    /\ last.ret = IF WalkStart = 0 THEN 0
                  ELSE ExpectedCap(pci_cfg[last.dev], WalkStart, last.cap)

\* A search went round a circular list until the time to live ran out.
C16_Witness ==
  /\ last.op = "pci_find_capability"
  /\ last.reads = 48
  /\ last.ret = 0
  /\ ExpectedCap(pci_cfg[last.dev], WalkStart, last.cap) = 0

\* The function of the last call answers with a normal or bridge header.
NormalOrBridgeLayout(fn) ==
  fn.hdr_type % 128 \in {PCI_HEADER_TYPE_NORMAL, PCI_HEADER_TYPE_BRIDGE}

\* C17: the hdr_type of a device record is the header type without bit
\* 0x80, so for a scanned function with a normal or bridge header
\* (multifunction devices included) and CAP_LIST set in STATUS,
\* pci_find_capability walks from the pointer at 0x34 and returns the
\* offset of the capability with the id asked for; it returns 0 without a
\* walk only when CAP_LIST is clear.
C17_FindCapabilityOfScanned ==
  (/\ last.op = "pci_find_capability"
   /\ NormalOrBridgeLayout(pci_cfg[last.dev].fn)) =>
    /\ pci_devs[last.dev].hdr_type = pci_cfg[last.dev].fn.hdr_type % 128
    /\ IF pci_cfg[last.dev].fn.status \cap PCI_STATUS_CAP_LIST = {}
       THEN last.ret = 0 /\ last.reads = 0
       ELSE /\ last.reads > 0
            /\ last.ret = ExpectedCap(pci_cfg[last.dev], PCI_CAPABILITY_LIST,
                                      last.cap)

\* What the BAR behind a populated resource reads back after the sizing
\* write.
MaskOf(r) ==
  BarAt(pci_cfg[r[1]].fn, PCI_BASE_ADDRESS_0 + 4 * r[2]).mask

\* The BAR behind a populated resource is a memory BAR with type bits
\* [2:1] = 2.
Is64BitMemoryBar(r) ==
  /\ MaskOf(r) \cap PCI_BASE_ADDRESS_SPACE_IO = {}
  /\ MaskOf(r) \cap {1, 2} = PCI_BASE_ADDRESS_MEM_TYPE_64

\* C19: every populated resource, whatever its BAR reads back (an I/O BAR
\* whose bit 2 reads back as 1 included), has exactly one of IO and MEM in
\* its flags, has PREFETCH or MEM_64 only together with MEM, and has
\* MEM_64 only if its BAR is a memory BAR with type bits [2:1] = 2.
C19_ResourceFlags ==
  \A r \in PopulatedResources :
    /\ (PCI_RESOURCE_IO \subseteq ResourceOf(r).flags)
         # (PCI_RESOURCE_MEM \subseteq ResourceOf(r).flags)
    /\ ResourceOf(r).flags
         \cap (PCI_RESOURCE_PREFETCH \cup PCI_RESOURCE_MEM_64) # {}
       => PCI_RESOURCE_MEM \subseteq ResourceOf(r).flags
    /\ PCI_RESOURCE_MEM_64 \subseteq ResourceOf(r).flags
       => Is64BitMemoryBar(r)

\* The size the address bits 31..4 of a memory BAR stand for.
AddressBitsSize(mask) ==
  IF mask \cap Ones(4, 31) = {} THEN {}
  ELSE {Least(mask \cap Ones(4, 31))}

\* The first function the scan finds is function 0 of the multi-function
\* device with the 64-bit prefetchable 1 MiB BAR in BAR2/BAR3, and the
\* controller's mem_pref is [0x1_0000_0000, 0x1_00ff_ffff].
PrefetchableExample(d) ==
  /\ d = 1
  /\ pci_cfg[d].fn = Multi
  /\ windows.mem_pref = Window({32}, {32} \cup Ones(0, 23))

\* C20: the size of a memory BAR is given by its address bits alone, not
\* by its type and prefetch bits; the 64-bit prefetchable 1 MiB BAR in
\* BAR2/BAR3 under mem_pref = [0x1_0000_0000, 0x1_0100_0000) becomes
\* resource[2] = {0x1_0000_0000, 0x1_000f_ffff, MEM|PREFETCH|MEM_64}, and
\* resource[3] stays unpopulated.
C20_PrefetchableBarSizing ==
  /\ \A r \in PopulatedResources :
       PCI_RESOURCE_MEM \subseteq ResourceOf(r).flags =>
         pci_resource_size(ResourceOf(r)) = AddressBitsSize(MaskOf(r))
  /\ \A d \in DOMAIN pci_devs :
       PrefetchableExample(d) =>
         /\ pci_devs[d].resource[2] =
              [start |-> {32}, end |-> {32} \cup Ones(0, 19),
               flags |-> PCI_RESOURCE_MEM \cup PCI_RESOURCE_PREFETCH
                           \cup PCI_RESOURCE_MEM_64]
         /\ pci_devs[d].resource[3].flags = {}

\* The example of C20 as the code computes it: resource[2] is 4 bytes
\* long.
PrefetchableExampleAsBuilt ==
  \A d \in DOMAIN pci_devs :
    PrefetchableExample(d) =>
      /\ pci_devs[d].resource[2] =
           [start |-> {32}, end |-> {32, 0, 1},
            flags |-> PCI_RESOURCE_MEM \cup PCI_RESOURCE_PREFETCH
                        \cup PCI_RESOURCE_MEM_64]
      /\ pci_devs[d].resource[3].flags = {}

\* pci_find_capability finds the MSI capability of the scanned devices
\* whose header type byte has bit 0x80 clear.
FindCapabilityUnlessMultifunction ==
  (/\ last.op = "pci_find_capability"
   /\ pci_cfg[last.dev].fn.hdr_type \in
        {PCI_HEADER_TYPE_NORMAL, PCI_HEADER_TYPE_BRIDGE}) =>
    last.ret = 80

\* The step is a call of pci_register_driver with an incomplete driver.
IncompleteDriverStep ==
  /\ last'.op = "pci_register_driver"
  /\ last'.drv \in {arg.drv : arg \in IncompleteDrivers}
  /\ last' # last

\* The step is a call of pci_register_controller(NULL).
NullControllerStep ==
  /\ last'.op = "pci_register_controller"
  /\ last'.drv = NULL
  /\ last' # last

\* The call of the step returned -EINVAL and left the registry and the
\* controller state as they were.
RefusedAsInvalid ==
  /\ last'.outcome = "returned"
  /\ last'.ret = -EINVAL
  /\ UNCHANGED <<g_pci_device_list, g_pci_driver_list, pci_devs, attached,
                 scan_vars>>

\* C18: pci_register_driver with a null driver or with a driver without
\* probe or id_table returns -EINVAL and leaves the driver list, the
\* device list and the bindings unchanged, as pci_register_controller(NULL)
\* returns -EINVAL without a scan.
C18_InvalidArguments ==
  [][(IncompleteDriverStep \/ NullControllerStep) => RefusedAsInvalid]_vars

\* pci_register_controller(NULL) returns -EINVAL without a scan.
NullControllerRefused ==
  [][NullControllerStep => RefusedAsInvalid]_vars

\* No call of pci_register_driver with an incomplete driver returns a
\* negative value.
IncompleteDriverNeverRefused ==
  (/\ last.op = "pci_register_driver"
   /\ last.drv \in {arg.drv : arg \in IncompleteDrivers}) =>
    last.ret = 0

\* The BAR i of the function of device d.
BarOf(d, i) == BarAt(pci_cfg[d].fn, PCI_BASE_ADDRESS_0 + 4 * i)

\* The size the address bits 31..4 of BAR i of device d stand for (0 for a
\* BAR that does not take the sizing pattern).
AddressSize(d, i) == pci_size(BarOf(d, i).orig, BarOf(d, i).mask, Ones(4, 31))

\* The size the scanner recorded for BAR i of device d.
RecordedSize(d, i) == pci_resource_size(pci_devs[d].resource[i])

\* BAR i of device d is the upper half of a 64-bit memory BAR.
RECURSIVE UpperHalf(_, _)
UpperHalf(d, i) ==
  /\ i > 0
  /\ ~UpperHalf(d, i - 1)
  /\ BarOf(d, i - 1).mask \cap {0, 1, 2} = PCI_BASE_ADDRESS_MEM_TYPE_64

\* The BARs of device d that are implemented: they read back something
\* other than 0 and 0xffffffff, stand for a size, and are not the upper
\* half of a 64-bit BAR.
ImplementedBars(d) ==
  {i \in 0..(NumBars(pci_cfg[d].fn) - 1) :
     /\ BarOf(d, i).mask \notin {{}, Ones(0, 31)}
     /\ AddressSize(d, i) # {}
     /\ ~UpperHalf(d, i)}

\* The window BAR i of device d is allocated from.
WindowOfBar(d, i) == WindowOf(<<d, i>>)

\* The implemented BARs of device d before BAR i that share its window.
EarlierInWindow(d, i) ==
  {j \in ImplementedBars(d) : j < i /\ WindowOfBar(d, j) = WindowOfBar(d, i)}

\* BAR i of device d, of the given size, has the least size-aligned address
\* at or after the end of the BAR assigned before it from the same window:
\* the address is a multiple of size, the range is [start, start + size - 1]
\* and less than size lies between the two.
FirstFit(d, i, size) ==
  /\ pci_devs[d].resource[i].flags # {}
  /\ pci_devs[d].resource[i].start \cap Ones(0, Max(size) - 1) = {}
  /\ pci_devs[d].resource[i].end =
       Sub(Add(pci_devs[d].resource[i].start, size, UPTR), {0}, UPTR)
  /\ Stored(pci_cfg[d], PCI_BASE_ADDRESS_0 + 4 * i, 4) =
       pci_devs[d].resource[i].start \cap Ones(0, 31)
  /\ EarlierInWindow(d, i) # {} =>
       /\ Less(pci_devs[d].resource[Max(EarlierInWindow(d, i))].end,
               pci_devs[d].resource[i].start)
       /\ LessEq(Sub(pci_devs[d].resource[i].start,
                     pci_devs[d].resource[Max(EarlierInWindow(d, i))].end,
                     UPTR),
                 size)

\* C21: every implemented BAR of a device whose BAR setup ran to its end
\* has, in ascending BAR index, the least address at or after the start of
\* its window that is a multiple of the BAR's size; the address is in the
\* BAR register and resource[i] is {start, start + size - 1, flags}.
C21_SequentialFirstFit ==
  \A d \in OnBusList : \A i \in ImplementedBars(d) :
    FirstFit(d, i, AddressSize(d, i))

\* The same with the size that pci_setup_device computed for the BAR.
FirstFitAsSized ==
  \A d \in OnBusList : \A i \in ImplementedBars(d) :
    /\ RecordedSize(d, i) # {}
    /\ FirstFit(d, i, RecordedSize(d, i))

\* The first function found has 32 bytes of I/O in BAR0 and 8 KiB of
\* memory in BAR1, under io = [0x1000, 0x1fff] and mem = [0xf0000000,
\* 0xf00fffff]: resource[0] = {0x1000, 0x101f, IO} and resource[1] =
\* {0xf0000000, 0xf0001fff, MEM}.
FirstFitExample ==
  (/\ pci_devs # << >>
   /\ pci_cfg[1].fn = Nic
   /\ windows.io.start = {12}
   /\ windows.mem.start = Ones(28, 31)) =>
    /\ pci_devs[1].resource[0] =
         [start |-> {12}, end |-> {12} \cup Ones(0, 4),
          flags |-> PCI_RESOURCE_IO]
    /\ pci_devs[1].resource[1] =
         [start |-> Ones(28, 31), end |-> Ones(28, 31) \cup Ones(0, 12),
          flags |-> PCI_RESOURCE_MEM]

\* The BARs of device d that pci_setup_device sized (the readback is
\* neither 0 nor 0xffffffff and pci_size is not 0) and did not skip as the
\* upper half of the BAR before, and that have no resource.
UnassignedBars(d) ==
  {i \in 0..(NumBars(pci_cfg[d].fn) - 1) :
     /\ BarOf(d, i).mask \notin {{}, Ones(0, 31)}
     /\ BarSize(BarOf(d, i).orig, BarOf(d, i).mask) # {}
     /\ pci_devs[d].resource[i].flags = {}
     /\ i > 0 =>
          PCI_RESOURCE_MEM_64 \cap pci_devs[d].resource[i - 1].flags = {}}

\* The BAR setup of the endpoint d stopped at a BAR ("does not fit"), d is
\* on the root bus and no function was found after it: the windows of the
\* controller are as they were when the BAR was refused.
RefusedLast(d) ==
  /\ d = Len(pci_devs)
  /\ pci_devs[d].bus = pci_ctrl.bus
  /\ pci_devs[d].hdr_type % 128 = PCI_HEADER_TYPE_NORMAL
  /\ PassedToSetup(d)
  /\ d \notin OnBusList

\* The BAR at which the BAR setup of d stopped, its window and its size.
RefusedBar(d) == Least(UnassignedBars(d))

RefusedWindow(d) == pci_ctrl[BarWindow(pci_ctrl, BarOf(d, RefusedBar(d)).mask)]

RefusedSize(d) ==
  BarSize(BarOf(d, RefusedBar(d)).orig, BarOf(d, RefusedBar(d)).mask)

\* The last address of a BAR of the given size at the least aligned
\* address of the window res.
AlignedEnd(res, size) ==
  Sub(Add(ALIGN(res.start, size), size, UPTR), {0}, UPTR)

\* C22: a BAR is refused only when its aligned range [a, a + size - 1]
\* would pass the last address end of its window; a BAR whose range ends
\* at end is assigned.
C22_RefusedOnlyBeyondEnd ==
  \A d \in DOMAIN pci_devs :
    RefusedLast(d) =>
      Less(RefusedWindow(d).end, AlignedEnd(RefusedWindow(d), RefusedSize(d)))

\* As built: a BAR is refused when its aligned range would reach end or
\* pass it.
RefusedAtOrBeyondEnd ==
  \A d \in DOMAIN pci_devs :
    RefusedLast(d) =>
      LessEq(RefusedWindow(d).end,
             AlignedEnd(RefusedWindow(d), RefusedSize(d)))

\* As built: no resource ends at the last address of its window.
NoWindowFilled ==
  \A r \in PopulatedResources :
    ResourceOf(r).end # windows[WindowOf(r)].end

\* ------------------------------------------------------------------------
\* C23: the forwarding windows of the bridges
\* ------------------------------------------------------------------------

\* The three kinds of window of a controller and of a bridge.
WindowKinds == {"io", "mem", "mem_pref"}

\* The first address a bridge forwards for a kind of window, as its BASE
\* registers hold it: bits 15..4 of MEMORY_BASE and PREF_MEMORY_BASE are
\* address bits 31..20 (with PREF_BASE_UPPER32 above them), bits 7..4 of
\* IO_BASE are address bits 15..12 (with IO_BASE_UPPER16 above them).
BridgeBase(d, kind) ==
  IF kind = "mem"
  THEN Shl(Stored(pci_cfg[d], PCI_MEMORY_BASE, 2) \cap Ones(4, 15), 16, UPTR)
  ELSE IF kind = "mem_pref"
  THEN Shl(Stored(pci_cfg[d], PCI_PREF_MEMORY_BASE, 2) \cap Ones(4, 15),
           16, UPTR)
         \cup Shl(Stored(pci_cfg[d], PCI_PREF_BASE_UPPER32, 4), 32, UPTR)
  ELSE Shl(Stored(pci_cfg[d], PCI_IO_BASE, 1) \cap Ones(4, 7), 8, UPTR)
         \cup Shl(Stored(pci_cfg[d], PCI_IO_BASE_UPPER16, 2), 16, UPTR)

\* The last address a bridge forwards for a kind of window: the LIMIT
\* registers give the upper address bits, the lower 20 (memory) or 12 (I/O)
\* bits are all ones.
BridgeLimit(d, kind) ==
  IF kind = "mem"
  THEN Shl(Stored(pci_cfg[d], PCI_MEMORY_LIMIT, 2) \cap Ones(4, 15), 16, UPTR)
         \cup Ones(0, 19)
  ELSE IF kind = "mem_pref"
  THEN Shl(Stored(pci_cfg[d], PCI_PREF_MEMORY_LIMIT, 2) \cap Ones(4, 15),
           16, UPTR)
         \cup Shl(Stored(pci_cfg[d], PCI_PREF_LIMIT_UPPER32, 4), 32, UPTR)
         \cup Ones(0, 19)
  ELSE Shl(Stored(pci_cfg[d], PCI_IO_LIMIT, 1) \cap Ones(4, 7), 8, UPTR)
         \cup Shl(Stored(pci_cfg[d], PCI_IO_LIMIT_UPPER16, 2), 16, UPTR)
         \cup Ones(0, 11)

\* pci_presetup_bridge programmed the bridge's window of this kind: the
\* memory windows are always written (opened or closed), the I/O window only
\* when the controller's I/O window was in use.
WindowProgrammed(d, kind) ==
  kind = "io" => PCI_IO_BASE \in DOMAIN pci_cfg[d].written

\* The devices on the buses behind bridge b.
DevicesBehind(b) ==
  {e \in DOMAIN pci_devs : pci_devs[e].bus \in Descendants(pci_devs[b].subordinate)}

\* The populated resources of a kind, of the devices behind bridge b and of
\* all the others (the bridge itself among them).
ResourcesBehind(b, kind) ==
  {r \in PopulatedResources : WindowOf(r) = kind /\ r[1] \in DevicesBehind(b)}

ResourcesNotBehind(b, kind) ==
  {r \in PopulatedResources : WindowOf(r) = kind /\ r[1] \notin DevicesBehind(b)}

\* The bridge forwards the whole of a resource, or some address of it.
Forwards(b, kind, res) ==
  /\ LessEq(BridgeBase(b, kind), res.start)
  /\ LessEq(res.end, BridgeLimit(b, kind))

ForwardsPartOf(b, kind, res) ==
  /\ LessEq(BridgeBase(b, kind), res.end)
  /\ LessEq(res.start, BridgeLimit(b, kind))

\* Neither bridge is behind the other.
Unrelated(b, c) ==
  b # c /\ b \notin DevicesBehind(c) /\ c \notin DevicesBehind(b)

\* The forwarded ranges of two bridges share an address.
RangesOverlap(b, c, kind) ==
  /\ LessEq(BridgeBase(b, kind), BridgeLimit(b, kind))
  /\ LessEq(BridgeBase(c, kind), BridgeLimit(c, kind))
  /\ LessEq(BridgeBase(b, kind), BridgeLimit(c, kind))
  /\ LessEq(BridgeBase(c, kind), BridgeLimit(b, kind))

\* pci_scan_bus(ctrl->bus) has returned.
ScanReturned == pc \in {"register", "done"}

\* What C23 states of one bridge and one kind of window.
ForwardingWindow(b, kind) ==
  /\ \A r \in ResourcesBehind(b, kind) : Forwards(b, kind, ResourceOf(r))
  /\ \A r \in ResourcesNotBehind(b, kind) :
       ~ForwardsPartOf(b, kind, ResourceOf(r))
  /\ \A c \in ScannedBridges :
       Unrelated(b, c) /\ WindowProgrammed(c, kind)
         => ~RangesOverlap(b, c, kind)
  /\ ResourcesBehind(b, kind) = {}
       => Less(BridgeLimit(b, kind), BridgeBase(b, kind))

CommandOf(d) == Stored(pci_cfg[d], PCI_COMMAND, 1)

\* The I/O and MEMORY enable bits.
DecodeBits == PCI_COMMAND_IO \cup PCI_COMMAND_MEMORY

\* pci_presetup_bridge closed the bridge's memory window of this kind
\* (BASE 0x1000, LIMIT 0) because the controller had none in use.
WindowClosed(d, kind) ==
  IF kind = "mem"
  THEN /\ Stored(pci_cfg[d], PCI_MEMORY_BASE, 2) = {12}
       /\ Stored(pci_cfg[d], PCI_MEMORY_LIMIT, 2) = {}
  ELSE /\ Stored(pci_cfg[d], PCI_PREF_MEMORY_BASE, 2) = {12}
       /\ Stored(pci_cfg[d], PCI_PREF_MEMORY_LIMIT, 2) = {}

\* COMMAND as it was when pci_setup_device read it: what the hardware held
\* for an endpoint; for a bridge, that with the bits pci_presetup_bridge
\* added: MASTER, MEMORY when a memory window was in use, IO when the I/O
\* window was.
PreProbeCommand(d) ==
  (HwDword(pci_cfg[d].fn, PCI_COMMAND) \cap Ones(0, 7))
    \cup (IF pci_devs[d].hdr_type % 128 # PCI_HEADER_TYPE_BRIDGE THEN {}
          ELSE PCI_COMMAND_MASTER
                 \cup (IF WindowProgrammed(d, "io") THEN PCI_COMMAND_IO
                       ELSE {})
                 \cup (IF WindowClosed(d, "mem") /\ WindowClosed(d, "mem_pref")
                       THEN {} ELSE PCI_COMMAND_MEMORY))

\* pci_setup_device was called for the device and has returned: at once
\* for an endpoint, after the scan of the child bus for a bridge.
SetupReturned(d) ==
  /\ PassedToSetup(d)
  /\ \A i \in DOMAIN scan_stack : scan_stack[i].bridge # d

\* C24 -- address decoding discipline: whenever pci_setup_device has
\* returned for an endpoint or a bridge, on whatever path, the COMMAND
\* register of the device holds the value it held before the probe; so a
\* bridge enabled by pci_presetup_bridge has its decode bits set.
C24_CommandRestored ==
  \A d \in DOMAIN pci_devs :
    SetupReturned(d) => CommandOf(d) = PreProbeCommand(d)

\* What the code does: COMMAND is restored where pci_setup_device reached
\* its end, which is where the device joined the list of its bus ...
CommandRestoredWhenListed ==
  \A d \in OnBusList : CommandOf(d) = PreProbeCommand(d)

\* ... and where a BAR did not fit, COMMAND is left as the probe set it:
\* the pre-probe value with the I/O and MEMORY bits clear.
DecodeOffWhenRefused ==
  \A d \in DOMAIN pci_devs :
    SetupReturned(d) /\ d \notin OnBusList
      => CommandOf(d) = PreProbeCommand(d) \ DecodeBits

\* A scanned bridge that pci_presetup_bridge enabled and whose own BAR did
\* not fit ends the scan with its decode bits clear.
BridgeLeftDisabled ==
  \E b \in ScannedBridges :
    /\ ScanReturned
    /\ PreProbeCommand(b) \cap DecodeBits # {}
    /\ CommandOf(b) \cap DecodeBits = {}

\* ------------------------------------------------------------------------
\* C25: the errors of the scanner are local
\* ------------------------------------------------------------------------

\* The function is one the scanner has to pass over: a read of it fails,
\* its vendor/device dword is 0xFFFFFFFF, 0, 0x0000FFFF or 0xFFFF0000, its
\* header type is neither 0 nor 1, or it has header type 0 and the class of
\* a PCI-PCI bridge.
PassedOver(fn) ==
  \/ fn.hdr_ret # 0
  \/ fn.vid_ret # 0
  \/ fn.l \in {Ones(0, 31), {}, Ones(0, 15), Ones(16, 31)}
  \/ fn.hdr_type % 128 \notin {0, 1}
  \/ fn.hdr_type % 128 = 0 /\ Nat2(Shr(fn.class_rev, 16)) = PCI_CLASS_BRIDGE_PCI

\* The iteration of pci_scan_bus for the slot the scan is at reads the
\* slot: it is function 0, or a function of a multi-function device.
SlotIsRead ==
  /\ pc = "scan"
  /\ scan_stack # << >>
  /\ Top(Machine).devfn < 255
  /\ PCI_FUNC(Top(Machine).devfn) = 0 \/ Top(Machine).is_multi # 0

\* The populated slots after the one the scan is at.
LaterSlots == {s \in PopulatedSlots : s > Top(Machine).devfn}

\* The step left everything the scanner had built as it was: the device
\* lists of the buses, the global list, the windows and the bus counter,
\* the records and the configuration spaces of the devices found before.
NothingAssigned ==
  /\ pci_buses' = pci_buses
  /\ g_pci_device_list' = g_pci_device_list
  /\ pci_ctrl' = pci_ctrl
  /\ \A d \in DOMAIN pci_devs :
       pci_devs'[d] = pci_devs[d] /\ pci_cfg'[d] = pci_cfg[d]
  /\ \A d \in (DOMAIN pci_devs') \ (DOMAIN pci_devs) :
       /\ \A i \in 0..(PCI_NUM_RESOURCES - 1) :
            pci_devs'[d].resource[i].flags = {}
       /\ pci_cfg'[d].written = << >>

\* The loop of the same call of pci_scan_bus goes on with the next
\* populated slot, or ends at devfn 255 when there is none.
ScanGoesOn ==
  /\ pc' = "scan"
  /\ Len(scan_stack') = Len(scan_stack)
  /\ scan_stack'[Len(scan_stack)].devfn =
       IF LaterSlots = {} THEN 255 ELSE Least(LaterSlots)

\* The step allocated a device for the slot the scan was at.
Allocated ==
  /\ Len(pci_devs') = Len(pci_devs) + 1
  /\ pci_devs'[Len(pci_devs')].bus = Top(Machine).bus
  /\ pci_devs'[Len(pci_devs')].devfn = Top(Machine).devfn

\* The function the iteration read was passed over: no device was
\* allocated for it, or one whose header or class the switch rejects.
ReadPassedOver ==
  \/ pci_devs' = pci_devs
  \/ Allocated /\ PassedOver(pci_cfg'[Len(pci_devs')].fn)

\* No device that the scanner passed over is on a list or has a resource.
PassedOverNeverListed ==
  \A d \in DOMAIN pci_devs :
    PassedOver(pci_cfg[d].fn) =>
      /\ d \notin OnBusList
      /\ d \notin Range(g_pci_device_list)
      /\ \A i \in 0..(PCI_NUM_RESOURCES - 1) : pci_devs[d].resource[i].flags = {}
      /\ pci_cfg[d].written = << >>

\* C25 -- scanner errors are local: a function whose header-type or vendor
\* read fails, whose vendor/device dword is 0xFFFFFFFF, 0, 0x0000FFFF or
\* 0xFFFF0000, whose header type is neither 0 nor 1, or which has header
\* type 0 and class BRIDGE_PCI is never on a bus device list or on the
\* global list and has no BAR assigned; the iteration that reads it changes
\* nothing the scanner built and the loop goes on with the later slots of
\* the bus, where every other iteration that reads a slot allocates a
\* device for it.
C25_ScannerErrorsLocal ==
  /\ []PassedOverNeverListed
  /\ [][SlotIsRead =>
          IF ReadPassedOver THEN NothingAssigned /\ ScanGoesOn
          ELSE Allocated]_vars

\* A published device with a BAR assigned that was discovered on a bus
\* after a function the scanner passed over.
C25_Witness ==
  /\ pc = "done"
  /\ \E d, e \in DOMAIN pci_devs :
       /\ PassedOver(pci_cfg[d].fn)
       /\ pci_devs[e].bus = pci_devs[d].bus
       /\ pci_devs[e].devfn > pci_devs[d].devfn
       /\ e \in Range(g_pci_device_list)
       /\ \E i \in 0..(PCI_NUM_RESOURCES - 1) : pci_devs[e].resource[i].flags # {}

\* ------------------------------------------------------------------------
\* C26: the window a BAR is allocated from
\* ------------------------------------------------------------------------

\* The populated resource lies in the window, as the controller passed it.
AllocatedFrom(r, kind) ==
  /\ LessEq(windows[kind].start, ResourceOf(r).start)
  /\ LessEq(ResourceOf(r).end, windows[kind].end)

\* The readback of the BAR behind a populated resource.
Readback(r) == BarOf(r[1], r[2]).mask

\* The policy allows a populated resource to come from this window: I/O
\* for bit 0; for bit 3 the prefetchable window, which the controller must
\* have passed non-empty, or memory once that window is empty (an empty
\* window stays empty: neither a BAR nor a bridge moves its start); else
\* memory.
PolicyAllows(r, kind) ==
  IF 0 \in Readback(r) THEN kind = "io"
  ELSE IF 3 \in Readback(r)
  THEN \/ kind = "mem_pref" /\ pci_resource_size(windows.mem_pref) # {}
       \/ kind = "mem" /\ pci_resource_size(pci_ctrl.mem_pref) = {}
  ELSE kind = "mem"

\* The device that a step of the scan allocated.
FoundDevice == Len(pci_devs')

\* The BARs of a kind that the step assigned to the new device.
NewBars(kind) ==
  {i \in 0..(PCI_NUM_RESOURCES - 1) :
     /\ pci_devs'[FoundDevice].resource[i].flags # {}
     /\ kind = (IF pci_devs'[FoundDevice].resource[i].flags \cap PCI_RESOURCE_IO # {}
                THEN "io"
                ELSE IF pci_devs'[FoundDevice].resource[i].flags
                          \cap PCI_RESOURCE_PREFETCH # {}
                THEN "mem_pref"
                ELSE "mem")}

\* The step is an iteration of pci_scan_bus that found a function with a
\* header other than a bridge's: the windows move by BAR assignment only.
EndpointStep ==
  /\ pc = "scan"
  /\ Len(pci_devs') = Len(pci_devs) + 1
  /\ pci_devs'[FoundDevice].hdr_type % 128 # PCI_HEADER_TYPE_BRIDGE

\* The start of a window after the step: where it was when no BAR of the
\* kind was assigned, else right after the last BAR assigned from it.
StartAfterBars(kind) ==
  IF NewBars(kind) = {} THEN pci_ctrl[kind].start
  ELSE Add(pci_devs'[FoundDevice].resource[Max(NewBars(kind))].end, {0}, UPTR)

\* The ends of the windows are those the controller passed.
EndsUnchanged ==
  pc # "idle" => \A kind \in WindowKinds : pci_ctrl[kind].end = windows[kind].end

\* Every populated resource is recorded with, and lies in, a window the
\* policy allows it.
RecordedByPolicy ==
  \A r \in PopulatedResources :
    PolicyAllows(r, WindowOf(r)) /\ AllocatedFrom(r, WindowOf(r))

\* C26 -- BAR kind policy and frame: a BAR is allocated from io iff bit 0
\* of its readback is 1, from mem_pref iff bit 0 is 0, bit 3 is 1 and the
\* controller has a prefetchable window in use, and from mem otherwise, and
\* the flags record that window (PREFETCH only for mem_pref); assigning
\* BARs moves the start of the chosen windows only, each to the address
\* after its last BAR, and no end of a window ever changes.
C26_BarKindPolicy ==
  /\ [](RecordedByPolicy /\ EndsUnchanged)
  /\ [][EndpointStep =>
          \A kind \in WindowKinds : pci_ctrl'[kind].start = StartAfterBars(kind)]_vars

\* A scanned device under a controller without a prefetchable window whose
\* prefetchable BAR is recorded as MEM without PREFETCH, next to an I/O BAR.
C26_Witness ==
  /\ pc = "done"
  /\ pci_resource_size(windows.mem_pref) = {}
  /\ \E r, q \in PopulatedResources :
       /\ r[1] = q[1]
       /\ 3 \in Readback(r) /\ 0 \notin Readback(r)
       /\ ResourceOf(r).flags \cap PCI_RESOURCE_PREFETCH = {}
       /\ ResourceOf(r).flags \cap PCI_RESOURCE_MEM # {}
       /\ 0 \in Readback(q)
       /\ ResourceOf(q).flags = PCI_RESOURCE_IO

\* ========================================================================
\* Concurrent registry calls
\* ========================================================================

\* Four tasks, one call each: pci_register_driver(drv),
\* pci_register_device(dev), and the two calls that take them out again.
RegistryCall(op, drv, dev) ==
  [op |-> op, drv |-> drv, dev |-> dev, pc |-> "call", ret |-> 0,
   calls |-> << >>]

ConcurrentCalls(drv, dev) ==
  << RegistryCall("pci_register_driver", drv, NULL),
     RegistryCall("pci_register_device", NULL, dev),
     RegistryCall("pci_unregister_driver", drv, NULL),
     RegistryCall("pci_unregister_device", NULL, dev) >>

InitConcurrent ==
  /\ InitRegistry
  /\ InitController
  /\ plan = [drivers |-> << >>, devices |-> << >>, probe |-> << >>]
  /\ alt = EmptyRegistry(pci_devs)
  /\ g_pci_lock = NULL
  /\ \E drv \in Drivers, dev \in Devices : task = ConcurrentCalls(drv, dev)

\* What the caller of a registry function guarantees: a driver or a device
\* is registered once, and is unregistered while it is registered (a driver
\* only when it has a remove callback, DEBUGASSERT(drv->remove != NULL)).
CallAllowed(c) ==
  IF c.op = "pci_register_driver" THEN c.drv \notin Range(g_pci_driver_list)
  ELSE IF c.op = "pci_register_device"
  THEN c.dev \notin Range(g_pci_device_list)
  ELSE IF c.op = "pci_unregister_driver"
  THEN c.drv \in Range(g_pci_driver_list) /\ has_remove(c.drv)
  ELSE c.dev \in Range(g_pci_device_list)

\* "nxmutex_unlock(&g_pci_lock);" without the unlock.
Unlocked_kept(lock) == lock

\* nxmutex_unlock(&g_pci_lock);
Unlocked(lock) == NULL

\* ret = nxmutex_lock(&g_pci_lock) returns 0: the task waited until the
\* lock was free and holds it.
nxmutex_lock(t) ==
  /\ task[t].pc = "call"
  /\ CallAllowed(task[t])
  /\ g_pci_lock = NULL
  /\ g_pci_lock' = t
  /\ task' = [task EXCEPT ![t].pc = "locked"]
  /\ UNCHANGED <<registry_vars, order_vars, scan_vars>>

\* ret = nxmutex_lock(&g_pci_lock) returns a negative errno (the wait was
\* interrupted or the task cancelled): if (ret < 0) return ret;
nxmutex_lock_fails(t) ==
  /\ task[t].pc = "call"
  /\ CallAllowed(task[t])
  /\ task' = [task EXCEPT ![t].pc = "returned", ![t].ret = -1]
  /\ UNCHANGED <<registry_vars, order_vars, scan_vars, g_pci_lock>>

\* What the function does between nxmutex_lock and nxmutex_unlock: the
\* list is changed and the loop makes its callbacks.
CriticalSection(c) ==
  IF c.op = "pci_register_driver"
  THEN \E rets \in [Range(g_pci_device_list) -> ProbeRets] :
         RegisterDriverCall(c.drv, rets)
  ELSE IF c.op = "pci_register_device"
  THEN \E rets \in [Range(g_pci_driver_list) -> ProbeRets] :
         RegisterDeviceCall(c.dev, rets)
  ELSE IF c.op = "pci_unregister_driver"
  THEN Registry(UnregisterDriver(g_pci_device_list, g_pci_driver_list,
                                 pci_devs, c.drv),
                "pci_unregister_driver", c.drv, NULL)
  ELSE Registry(UnregisterDevice(g_pci_device_list, g_pci_driver_list,
                                 pci_devs, c.dev),
                "pci_unregister_device", NULL, c.dev)

\* The body of a registry function after nxmutex_lock returned 0.
registry_critical_section(t) ==
  /\ task[t].pc = "locked"
  /\ CriticalSection(task[t])
  /\ task' = [task EXCEPT ![t].pc = "unlock", ![t].calls = last'.calls]
  /\ UNCHANGED <<order_vars, scan_vars, g_pci_lock>>

\* nxmutex_unlock(&g_pci_lock); return ret;
nxmutex_unlock(t) ==
  /\ task[t].pc = "unlock"
  /\ g_pci_lock' = Unlocked(g_pci_lock)
  /\ task' = [task EXCEPT ![t].pc = "returned"]
  /\ UNCHANGED <<registry_vars, order_vars, scan_vars>>

NextConcurrent ==
  \/ \E t \in DOMAIN task : nxmutex_lock(t)
  \/ \E t \in DOMAIN task : nxmutex_lock_fails(t)
  \/ \E t \in DOMAIN task : registry_critical_section(t)
  \/ \E t \in DOMAIN task : nxmutex_unlock(t)

SpecConcurrent == InitConcurrent /\ [][NextConcurrent]_vars

\* ------------------------------------------------------------------------
\* C27: the locking protocol
\* ------------------------------------------------------------------------

\* The tasks between nxmutex_lock returning 0 and nxmutex_unlock.
InCriticalSection == {t \in DOMAIN task : task[t].pc \in {"locked", "unlock"}}

\* The step made a callback.
CallbackStep == \E t \in DOMAIN task : task'[t].calls # task[t].calls

\* C27 -- locking protocol: a probe or remove callback is made only by the
\* task that holds g_pci_lock, before and after the step; at most one task
\* is between nxmutex_lock and nxmutex_unlock, and it is the holder of the
\* lock; and the lock is free whenever no task is there, whichever way the
\* calls returned.
C27_LockingProtocol ==
  /\ [](/\ \A t, u \in InCriticalSection : t = u
        /\ \A t \in InCriticalSection : g_pci_lock = t
        /\ InCriticalSection = {} => g_pci_lock = NULL)
  /\ [][\A t \in DOMAIN task :
          task'[t].calls # task[t].calls
            => g_pci_lock = t /\ g_pci_lock' = t]_vars

\* All four calls have returned, two of them because nxmutex_lock failed,
\* and a callback was made under the lock.
C27_Witness ==
  /\ \A t \in DOMAIN task : task[t].pc = "returned"
  /\ \E t, u \in DOMAIN task : t # u /\ task[t].ret < 0 /\ task[u].ret < 0
  /\ \E t \in DOMAIN task : task[t].calls # << >>
  /\ g_pci_lock = NULL

\* ------------------------------------------------------------------------
\* C28: a driver and a device that register concurrently
\* ------------------------------------------------------------------------

\* The driver of the first task and the device of the second.
TheDriver == task[1].drv

TheDevice == task[2].dev

\* The calls of TheDriver's probe for TheDevice that the two registrations
\* made.
ProbesOf(calls) ==
  {i \in DOMAIN calls :
     /\ calls[i].cb = "probe"
     /\ calls[i].drv = TheDriver
     /\ calls[i].dev = TheDevice}

ProbeCount ==
  Cardinality(ProbesOf(task[1].calls)) + Cardinality(ProbesOf(task[2].calls))

\* Some entry of the driver's id table before the sentinel matches the
\* device.
RECURSIVE MatchingEntries(_, _, _)
MatchingEntries(drv, dev, i) ==
  IF id_table(drv)[i].vendor = 0 THEN {}
  ELSE (IF pci_match_one_device(id_table(drv)[i], dev) THEN {i} ELSE {})
         \cup MatchingEntries(drv, dev, i + 1)

\* pci_register_driver(D) and pci_register_device(dev) have both returned
\* 0, D's id table matches dev, every probe made succeeded, and neither was
\* unregistered.
BothRegistered ==
  /\ task[1].pc = "returned" /\ task[1].ret = 0
  /\ task[2].pc = "returned" /\ task[2].ret = 0
  /\ task[3].pc = "call" /\ task[4].pc = "call"
  /\ MatchingEntries(TheDriver, pci_devs[TheDevice], 1) # {}
  /\ \A i \in DOMAIN task[1].calls : task[1].calls[i].ret >= 0
  /\ \A i \in DOMAIN task[2].calls : task[2].calls[i].ret >= 0

\* C28 -- no lost or duplicated binding under concurrency: when
\* pci_register_driver(D) and pci_register_device(dev) ran concurrently and
\* have both returned, D's id table matching dev and its probe succeeding,
\* dev->drv is D and D's probe was called for dev exactly once.
C28_BoundOnce ==
  BothRegistered =>
    pci_devs[TheDevice].drv = TheDriver /\ ProbeCount = 1

\* What the code does: the binding is never lost, and the probe is called
\* once when the device registered last, and once per matching entry of the
\* id table when the driver registered last.
BoundAtLeastOnce ==
  BothRegistered =>
    /\ pci_devs[TheDevice].drv = TheDriver
    /\ ProbeCount =
         IF task[2].calls # << >> THEN 1
         ELSE Cardinality(MatchingEntries(TheDriver, pci_devs[TheDevice], 1))

\* Both have registered and the probe was called twice.
ProbedTwice == BothRegistered /\ ProbeCount = 2

\* ------------------------------------------------------------------------
\* C29: the order of the steps of pci_register_controller
\* ------------------------------------------------------------------------

\* While pci_scan_bus runs, no device is on the global list, none has been
\* passed to pci_register_device, no registry call was made and the lock is
\* free.
NothingPublishedDuringScan ==
  pc = "scan" =>
    /\ g_pci_device_list = << >>
    /\ published = 0
    /\ last.op = "none"
    /\ g_pci_lock = NULL

\* The root bus is on g_pci_root_buses only when pci_register_bus_devices
\* has registered every device of the bus lists.
RootBusLast ==
  /\ g_pci_root_buses # << >> <=> pc = "done"
  /\ pc = "done" =>
       /\ g_pci_root_buses = << pci_ctrl.bus >>
       /\ published = Len(RegisterBusDevices(pci_buses, pci_ctrl.bus))
       /\ OnBusList = Range(g_pci_device_list)

\* A step after pci_scan_bus(ctrl->bus) has returned.
AfterScanStep == pc \in {"register", "done"}

============================================================================
